---- MODULE Spec2Model ----
(***************************************************************************)
(* The Intcode interpreter of src/src/intcode.rs (struct Computer) and the *)
(* hosts that drive it, as a state machine.                                *)
(*                                                                         *)
(* A Computer owns a Memory whose Vec<i64> lives in a heap buffer; the     *)
(* model keeps the buffers in `heap` and the Computer's other fields by    *)
(* value in `computers`.  A Rust panic ends the process: it is recorded in *)
(* `panicked` and no operation runs afterwards.  The trace flags only      *)
(* print and are left out.  Words are i64; the values of the model stay    *)
(* far inside that range, so + and * are exact here, and a product beyond  *)
(* 2^31 is carried in decimal limbs.                                       *)
(***************************************************************************)
EXTENDS Integers, Sequences, FiniteSets, TLC

VARIABLES
    computers,   \* instance name -> Computer (field memory is a buffer of heap)
    heap,        \* buffer -> contents of a Memory's vec
    panicked,    \* "" or the reason of the panic that ended the process
    last,        \* the host's last call: operation, instance, returned value
    hist,        \* the original's program text and its I/O so far
    npokes,      \* pokes made so far
    nops,        \* host calls made so far, counted where a clone is made
    graph,       \* the Graph of graph.rs: nodes and edges
    network      \* the day-23 host: nodes, queue of active nodes, NAT packet

vars == <<computers, heap, panicked, last, hist, npokes, nops, graph, network>>

\* the variables of graph.rs and of bin/23.rs, which no operation of a
\* Computer touches
others == <<graph, network>>

----------------------------------------------------------------------------
(* Bounds of the model.                                                    *)

\* step calls that reach the decoder, per instance
MaxSteps == 7
\* values appended to the original's input queue
MaxAppended == 2
\* pokes made by the host
MaxPokes == 1
\* host operations after the clone point
MaxCloneOps == 4
\* steps a program under run_program makes
MaxHarnessSteps == 90
\* magnitude of the input number run_program appends
MaxHarnessInput == 9
\* host calls in a behaviour of SpecHost
MaxHostOps == 5
\* steps of one run in SpecRun, and the step counts runs are started at
MaxRunSteps == 12

(* Program constants.                                                      *)
StepCeiling == 100000000
MemorySetLimit == 100000
StoreAddressLimit == 131072

----------------------------------------------------------------------------
(* Option<Word>: None and Some(v).                                         *)
None == <<>>
Some(v) == <<v>>

(* Rust's / and % on i64 truncate toward zero.                             *)
RustDiv(a, b) == IF a >= 0 THEN a \div b ELSE -((-a) \div b)

\* mutant of RustRem: the remainder of floored division
FlooredRem(a, b) == a % b

\* i64 %: the remainder has the sign of the dividend
RustRem(a, b) == IF a >= 0 THEN a % b ELSE -((-a) % b)

----------------------------------------------------------------------------
(* Word = i64.  A word below 2^31 in magnitude is an integer of the model; *)
(* a word beyond is the record [neg, limbs] of its sign and its magnitude  *)
(* in limbs of four decimal digits, the least significant first.  Only     *)
(* multiplication and the parsing of program text produce words beyond;    *)
(* loads, stores and the I/O slots move either form unchanged.             *)

LimbBase == 10000

Abs(n) == IF n < 0 THEN -n ELSE n

RECURSIVE Limbs(_)
\* the limbs of a non-negative integer
Limbs(n) ==
    IF n = 0 THEN <<>> ELSE <<n % LimbBase>> \o Limbs(n \div LimbBase)

RECURSIVE Trimmed(_)
\* a magnitude without zero limbs at its high end
Trimmed(x) ==
    IF x # <<>> /\ x[Len(x)] = 0 THEN Trimmed(SubSeq(x, 1, Len(x) - 1)) ELSE x

RECURSIVE LimbsTimes(_, _, _)
\* x * m + carry, for m and carry below LimbBase
LimbsTimes(x, m, carry) ==
    IF x = <<>> THEN (IF carry = 0 THEN <<>> ELSE <<carry>>)
    ELSE LET t == Head(x) * m + carry
         IN  <<t % LimbBase>> \o LimbsTimes(Tail(x), m, t \div LimbBase)

RECURSIVE LimbsPlus(_, _, _)
\* x + y + carry
LimbsPlus(x, y, carry) ==
    IF x = <<>> /\ y = <<>> THEN (IF carry = 0 THEN <<>> ELSE <<carry>>)
    ELSE LET t == (IF x = <<>> THEN 0 ELSE Head(x))
                  + (IF y = <<>> THEN 0 ELSE Head(y)) + carry
         IN  <<t % LimbBase>>
             \o LimbsPlus(IF x = <<>> THEN <<>> ELSE Tail(x),
                          IF y = <<>> THEN <<>> ELSE Tail(y), t \div LimbBase)

RECURSIVE LimbsProduct(_, _)
\* x * y: x times each limb of y, shifted by the limb's place
LimbsProduct(x, y) ==
    IF y = <<>> THEN <<>>
    ELSE LimbsPlus(LimbsTimes(x, Head(y), 0), <<0>> \o LimbsProduct(x, Tail(y)), 0)

\* the (trimmed) magnitude x is below 2^31 = 21 4748 3648
FitsInteger(x) ==
    \/ Len(x) <= 2
    \/ Len(x) = 3 /\ x[3] * LimbBase + x[2] < 214748
    \/ Len(x) = 3 /\ x[3] * LimbBase + x[2] = 214748 /\ x[1] < 3648

\* the word of sign neg and magnitude x
WordOf(neg, x) ==
    LET m == Trimmed(x)
        v == (IF Len(m) >= 3 THEN m[3] * LimbBase * LimbBase ELSE 0)
             + (IF Len(m) >= 2 THEN m[2] * LimbBase ELSE 0)
             + (IF Len(m) >= 1 THEN m[1] ELSE 0)
    IN  IF FitsInteger(m) THEN (IF neg THEN -v ELSE v)
        ELSE [neg |-> neg, limbs |-> m]

\* mutant of WordMul: a product beyond 2^31 loses its highest limb
WordMulTruncated(a, b) ==
    IF Abs(a) < LimbBase /\ Abs(b) < LimbBase THEN a * b
    ELSE LET p == Trimmed(LimbsProduct(Limbs(Abs(a)), Limbs(Abs(b))))
         IN  WordOf((a < 0) # (b < 0), IF Len(p) > 3 THEN SubSeq(p, 1, Len(p) - 1) ELSE p)

\* a * b on i64, for a and b below 2^31 in magnitude: the product is below
\* 2^62, within i64
WordMul(a, b) ==
    IF Abs(a) < LimbBase /\ Abs(b) < LimbBase THEN a * b
    ELSE WordOf((a < 0) # (b < 0), LimbsProduct(Limbs(Abs(a)), Limbs(Abs(b))))

RECURSIVE DigitsLimbs(_, _)
\* the magnitude x followed by the decimal digits
DigitsLimbs(x, digits) ==
    IF digits = <<>> THEN x
    ELSE DigitsLimbs(LimbsTimes(x, 10, Head(digits)), Tail(digits))

\* str::parse::<i64> of a decimal numeral within i64
ParseWord(neg, digits) == WordOf(neg, DigitsLimbs(<<>>, digits))

----------------------------------------------------------------------------
(* Memory.                                                                 *)

\* Memory::get panics on a negative index
MemoryGetPanics(index) == index < 0

\* mutant of MemoryGet: the last cell beyond the extent
MemoryGetClamped(vec, index) ==
    IF index >= Len(vec) THEN vec[Len(vec)] ELSE vec[index + 1]

\* Memory::get: 0 beyond the extent (index >= 0)
MemoryGet(vec, index) ==
    IF index >= Len(vec) THEN 0 ELSE vec[index + 1]

\* mutant of MemorySetPanics: no lower limit
MemorySetPanicsAbove(index) == ~(index < MemorySetLimit)

\* Memory::set panics outside 0..100*1000
MemorySetPanics(index) == ~(0 <= index /\ index < MemorySetLimit)

\* mutant of MemorySet: the new cells below index take the value too
MemorySetFills(vec, index, value) ==
    [i \in 1..(IF index >= Len(vec) THEN index + 1 ELSE Len(vec)) |->
        IF i = index + 1 THEN value
        ELSE IF i <= Len(vec) THEN vec[i] ELSE value]

\* Memory::set: push zeros until the vec reaches index, then write
MemorySet(vec, index, value) ==
    LET grown == IF index >= Len(vec)
                 THEN vec \o [i \in 1..(index + 1 - Len(vec)) |-> 0]
                 ELSE vec
    IN  [grown EXCEPT ![index + 1] = value]

----------------------------------------------------------------------------
(* Decode.                                                                 *)

\* Opcode::from: "" for an invalid opcode
OpcodeFrom(i) ==
    CASE i = 1 -> "Add"
      [] i = 2 -> "Multiply"
      [] i = 3 -> "Input"
      [] i = 4 -> "Output"
      [] i = 5 -> "JumpIfTrue"
      [] i = 6 -> "JumpIfFalse"
      [] i = 7 -> "LessThan"
      [] i = 8 -> "Equals"
      [] i = 9 -> "AdjustRelativeBase"
      [] i = 99 -> "Finished"
      [] OTHER -> ""

\* ParameterMode::from: "" for an invalid mode
ParameterModeFrom(i) ==
    CASE i = 0 -> "Position"
      [] i = 1 -> "Immediate"
      [] i = 2 -> "RelativePosition"
      [] OTHER -> ""

\* the number of parameters parse_instruction parses for an opcode
Arity(op) ==
    CASE op \in {"Add", "Multiply", "LessThan", "Equals"} -> 3
      [] op \in {"JumpIfTrue", "JumpIfFalse"} -> 2
      [] op \in {"Input", "Output", "AdjustRelativeBase"} -> 1
      [] OTHER -> 0

RECURSIVE DivTen(_, _)
\* the loop `for _ in 0..param { tmp /= 10 }`
DivTen(tmp, param) ==
    IF param = 0 THEN tmp ELSE DivTen(RustDiv(tmp, 10), param - 1)

\* mutant of ParseParameter: every parameter takes the first mode digit
ParseParameterFirstMode(param, instruction, pc, vec) ==
    IF ~(0 <= param /\ param <= 2)
    THEN [mode |-> "", value |-> 0, panic |-> "Invalid parameter index"]
    ELSE [mode |-> ParameterModeFrom(RustRem(RustDiv(instruction, 100), 10)),
          value |-> MemoryGet(vec, pc + 1 + param),
          panic |-> ""]

\* parse_parameter: a param outside 0..=2 panics (parse_instruction passes
\* 0, 1 and 2 only); mode "" stands for the Err of ParameterMode::from
ParseParameter(param, instruction, pc, vec) ==
    IF ~(0 <= param /\ param <= 2)
    THEN [mode |-> "", value |-> 0, panic |-> "Invalid parameter index"]
    ELSE [mode |-> ParameterModeFrom(
                       RustRem(DivTen(RustDiv(instruction, 100), param), 10)),
          value |-> MemoryGet(vec, pc + 1 + param),
          panic |-> ""]

\* mutant of ParseInstruction: only the first mode digit is checked
ParseInstructionFirstModeOnly(pc, vec) ==
    LET instruction == MemoryGet(vec, pc)
        op == OpcodeFrom(RustRem(instruction, 100))
        P(i) == ParseParameter(i, instruction, pc, vec)
    IN  [op |-> op,
         a |-> P(0), b |-> P(1), c |-> P(2),
         err |-> \/ op = ""
                 \/ (Arity(op) >= 1 /\ P(0).mode = "")]

\* parse_instruction (pc >= 0): err is TRUE for the Err results
ParseInstruction(pc, vec) ==
    LET instruction == MemoryGet(vec, pc)
        op == OpcodeFrom(RustRem(instruction, 100))
        P(i) == ParseParameter(i, instruction, pc, vec)
    IN  [op |-> op,
         a |-> P(0), b |-> P(1), c |-> P(2),
         err |-> \/ op = ""
                 \/ \E i \in 0..(Arity(op) - 1) : P(i).mode = ""]

----------------------------------------------------------------------------
(* Operand resolution.  c is a Computer whose memory field holds the       *)
(* contents of its buffer.                                                 *)

\* Computer::load panics through Memory::get on a negative address
LoadPanics(c, param) ==
    CASE param.mode = "Position" -> MemoryGetPanics(param.value)
      [] param.mode = "Immediate" -> FALSE
      [] OTHER -> MemoryGetPanics(c.relative_base + param.value)

\* mutant of Load: a relative parameter is resolved without the base
LoadRelativeIgnoresBase(c, param) ==
    CASE param.mode = "Position" -> MemoryGet(c.memory, param.value)
      [] param.mode = "Immediate" -> param.value
      [] OTHER -> MemoryGet(c.memory, param.value)

\* mutant of Load: a position-mode parameter yields its raw value
LoadPositionAsImmediate(c, param) ==
    CASE param.mode = "Position" -> param.value
      [] param.mode = "Immediate" -> param.value
      [] OTHER -> MemoryGet(c.memory, c.relative_base + param.value)

\* Computer::load
Load(c, param) ==
    CASE param.mode = "Position" -> MemoryGet(c.memory, param.value)
      [] param.mode = "Immediate" -> param.value
      [] OTHER -> MemoryGet(c.memory, c.relative_base + param.value)

\* the address Computer::store resolves (not for Immediate)
StoreAddress(c, param) ==
    IF param.mode = "Position" THEN param.value
    ELSE c.relative_base + param.value

\* mutant of StorePanic: Memory::set accepts what store_to_address accepts
StorePanicLooseOnly(c, param) ==
    IF param.mode = "Immediate"
    THEN "storing to an immediate parameter is not not implemented"
    ELSE IF ~(0 <= StoreAddress(c, param) /\ StoreAddress(c, param) <= StoreAddressLimit)
    THEN "Invalid address"
    ELSE ""

\* mutant of StorePanic: an immediate target is stored through
StorePanicAllowsImmediate(c, param) ==
    IF ~(0 <= StoreAddress(c, param) /\ StoreAddress(c, param) <= StoreAddressLimit)
    THEN "Invalid address"
    ELSE IF MemorySetPanics(StoreAddress(c, param))
    THEN "invalid index"
    ELSE ""

\* Computer::store and store_to_address: the panic they end in, or ""
StorePanic(c, param) ==
    IF param.mode = "Immediate"
    THEN "storing to an immediate parameter is not not implemented"
    ELSE IF ~(0 <= StoreAddress(c, param) /\ StoreAddress(c, param) <= StoreAddressLimit)
    THEN "Invalid address"
    ELSE IF MemorySetPanics(StoreAddress(c, param))
    THEN "invalid index"
    ELSE ""

\* Computer::store when it does not panic
Store(c, param, value) ==
    [c EXCEPT !.memory = MemorySet(@, StoreAddress(c, param), value)]

----------------------------------------------------------------------------
(* One step.  A result is the Computer after the call, the StepState       *)
(* returned, the panic that ended the call ("" when it returned), and the  *)
(* instruction executed: its opcode ("" when none ran to its end) with the *)
(* value it loaded for output or stored from input.                        *)

Returned(c, ret, op, val) ==
    [c |-> c, ret |-> ret, panic |-> "", op |-> op, val |-> val]

Panicked(c, msg) ==
    [c |-> c, ret |-> "", panic |-> msg, op |-> "", val |-> 0]

\* mutant of ExecArith: Multiply adds
ExecArithMultiplyAdds(c, op, i) ==
    IF LoadPanics(c, i.a) \/ LoadPanics(c, i.b) THEN Panicked(c, "invalid index")
    ELSE LET value == Load(c, i.a) + Load(c, i.b)
         IN  IF StorePanic(c, i.c) # "" THEN Panicked(c, StorePanic(c, i.c))
             ELSE Returned([Store(c, i.c, value) EXCEPT !.pc = @ + 4],
                           "Running", op, value)

\* intcode.rs 374-383: Add and Multiply
ExecArith(c, op, i) ==
    IF LoadPanics(c, i.a) \/ LoadPanics(c, i.b) THEN Panicked(c, "invalid index")
    ELSE LET value == IF op = "Add" THEN Load(c, i.a) + Load(c, i.b)
                      ELSE WordMul(Load(c, i.a), Load(c, i.b))
         IN  IF StorePanic(c, i.c) # "" THEN Panicked(c, StorePanic(c, i.c))
             ELSE Returned([Store(c, i.c, value) EXCEPT !.pc = @ + 4],
                           "Running", op, value)

\* mutant of ExecInput: an empty queue skips the instruction
ExecInputSkipsWhenEmpty(c, i) ==
    IF c.input_buffer # <<>>
    THEN LET value == Head(c.input_buffer)
             popped == [c EXCEPT !.input_buffer = Tail(@)]
         IN  IF StorePanic(popped, i.a) # "" THEN Panicked(popped, StorePanic(popped, i.a))
             ELSE Returned([Store(popped, i.a, value) EXCEPT !.pc = @ + 2],
                           "Running", "Input", value)
    ELSE Returned([c EXCEPT !.pc = @ + 2], "BlockedOnInput", "", 0)

\* mutant of ExecInput: a satisfied input suspends all the same
ExecInputAlwaysSuspends(c, i) ==
    IF c.input_buffer # <<>>
    THEN LET value == Head(c.input_buffer)
             popped == [c EXCEPT !.input_buffer = Tail(@)]
         IN  IF StorePanic(popped, i.a) # "" THEN Panicked(popped, StorePanic(popped, i.a))
             ELSE Returned([Store(popped, i.a, value) EXCEPT !.pc = @ + 2],
                           "BlockedOnInput", "Input", value)
    ELSE Returned(c, "BlockedOnInput", "", 0)

\* intcode.rs 384-391: Input
ExecInput(c, i) ==
    IF c.input_buffer # <<>>
    THEN LET value == Head(c.input_buffer)
             popped == [c EXCEPT !.input_buffer = Tail(@)]
         IN  IF StorePanic(popped, i.a) # "" THEN Panicked(popped, StorePanic(popped, i.a))
             ELSE Returned([Store(popped, i.a, value) EXCEPT !.pc = @ + 2],
                           "Running", "Input", value)
    ELSE Returned(c, "BlockedOnInput", "", 0)

\* mutant of ExecOutput: the return after buffering the value is missing
ExecOutputNoReturn(c, i) ==
    IF LoadPanics(c, i.a) THEN Panicked(c, "invalid index")
    ELSE LET value == Load(c, i.a)
         IN  Returned([c EXCEPT !.output = Some(value), !.pc = @ + 2],
                      "Running", "Output", value)

\* mutant of ExecOutput: pc is not advanced
ExecOutputNoAdvance(c, i) ==
    IF LoadPanics(c, i.a) THEN Panicked(c, "invalid index")
    ELSE LET value == Load(c, i.a)
         IN  Returned([c EXCEPT !.output = Some(value)],
                      "BlockedOnOutput", "Output", value)

\* intcode.rs 392-400: Output
ExecOutput(c, i) ==
    IF LoadPanics(c, i.a) THEN Panicked(c, "invalid index")
    ELSE LET value == Load(c, i.a)
         IN  Returned([c EXCEPT !.output = Some(value), !.pc = @ + 2],
                      "BlockedOnOutput", "Output", value)

\* mutant of ExecJump: a taken jump is advanced past the instruction too
ExecJumpAdvancesAfter(c, op, i) ==
    IF LoadPanics(c, i.a) THEN Panicked(c, "invalid index")
    ELSE LET value == Load(c, i.a)
             taken == IF op = "JumpIfTrue" THEN value # 0 ELSE value = 0
         IN  IF taken
             THEN IF LoadPanics(c, i.b) THEN Panicked(c, "invalid index")
                  ELSE Returned([c EXCEPT !.pc = Load(c, i.b) + 3], "Running", op, value)
             ELSE Returned([c EXCEPT !.pc = @ + 3], "Running", op, value)

\* intcode.rs 401-416: JumpIfTrue and JumpIfFalse
ExecJump(c, op, i) ==
    IF LoadPanics(c, i.a) THEN Panicked(c, "invalid index")
    ELSE LET value == Load(c, i.a)
             taken == IF op = "JumpIfTrue" THEN value # 0 ELSE value = 0
         IN  IF taken
             THEN IF LoadPanics(c, i.b) THEN Panicked(c, "invalid index")
                  ELSE Returned([c EXCEPT !.pc = Load(c, i.b)], "Running", op, value)
             ELSE Returned([c EXCEPT !.pc = @ + 3], "Running", op, value)

\* mutant of ExecCompare: LessThan holds for equal operands too
ExecCompareLessOrEqual(c, op, i) ==
    IF LoadPanics(c, i.a) \/ LoadPanics(c, i.b) THEN Panicked(c, "invalid index")
    ELSE LET holds == IF op = "LessThan" THEN Load(c, i.a) <= Load(c, i.b)
                      ELSE Load(c, i.a) = Load(c, i.b)
             value == IF holds THEN 1 ELSE 0
         IN  IF StorePanic(c, i.c) # "" THEN Panicked(c, StorePanic(c, i.c))
             ELSE Returned([Store(c, i.c, value) EXCEPT !.pc = @ + 4],
                           "Running", op, value)

\* intcode.rs 417-426: LessThan and Equals
ExecCompare(c, op, i) ==
    IF LoadPanics(c, i.a) \/ LoadPanics(c, i.b) THEN Panicked(c, "invalid index")
    ELSE LET holds == IF op = "LessThan" THEN Load(c, i.a) < Load(c, i.b)
                      ELSE Load(c, i.a) = Load(c, i.b)
             value == IF holds THEN 1 ELSE 0
         IN  IF StorePanic(c, i.c) # "" THEN Panicked(c, StorePanic(c, i.c))
             ELSE Returned([Store(c, i.c, value) EXCEPT !.pc = @ + 4],
                           "Running", op, value)

\* mutant of ExecAdjustRelativeBase: the base is replaced, not adjusted
ExecAdjustRelativeBaseSets(c, i) ==
    IF LoadPanics(c, i.a) THEN Panicked(c, "invalid index")
    ELSE LET value == Load(c, i.a)
         IN  Returned([c EXCEPT !.relative_base = value, !.pc = @ + 2],
                      "Running", "AdjustRelativeBase", value)

\* mutant of ExecAdjustRelativeBase: the raw value is added
ExecAdjustRelativeBaseRaw(c, i) ==
    IF LoadPanics(c, i.a) THEN Panicked(c, "invalid index")
    ELSE LET value == i.a.value
         IN  Returned([c EXCEPT !.relative_base = @ + value, !.pc = @ + 2],
                      "Running", "AdjustRelativeBase", value)

\* intcode.rs 427-439: AdjustRelativeBase
ExecAdjustRelativeBase(c, i) ==
    IF LoadPanics(c, i.a) THEN Panicked(c, "invalid index")
    ELSE LET value == Load(c, i.a)
         IN  Returned([c EXCEPT !.relative_base = @ + value, !.pc = @ + 2],
                      "Running", "AdjustRelativeBase", value)

\* mutant of ExecFinished: the halt is stepped over
ExecFinishedAdvances(c) ==
    Returned([c EXCEPT !.finished = TRUE, !.pc = @ + 1], "Finished", "Finished", 0)

\* mutant of ExecFinished: the halt drops the queued input
ExecFinishedDrains(c) ==
    Returned([c EXCEPT !.finished = TRUE, !.input_buffer = <<>>], "Finished", "Finished", 0)

\* intcode.rs 440-446: Finished
ExecFinished(c) ==
    Returned([c EXCEPT !.finished = TRUE], "Finished", "Finished", 0)

\* intcode.rs 373-448: the match on the decoded instruction
Exec(c, i) ==
    CASE i.op \in {"Add", "Multiply"} -> ExecArith(c, i.op, i)
      [] i.op = "Input" -> ExecInput(c, i)
      [] i.op = "Output" -> ExecOutput(c, i)
      [] i.op \in {"JumpIfTrue", "JumpIfFalse"} -> ExecJump(c, i.op, i)
      [] i.op \in {"LessThan", "Equals"} -> ExecCompare(c, i.op, i)
      [] i.op = "AdjustRelativeBase" -> ExecAdjustRelativeBase(c, i)
      [] OTHER -> ExecFinished(c)

\* mutant of StepDecode: the step that reaches the ceiling panics
StepDecodeCeilingReached(c) ==
    LET counted == [c EXCEPT !.step = @ + 1]
    IN  IF counted.step >= StepCeiling THEN Panicked(counted, "Too many steps")
        ELSE IF MemoryGetPanics(counted.pc) THEN Panicked(counted, "invalid index")
        ELSE LET i == ParseInstruction(counted.pc, counted.memory)
             IN  IF i.err THEN Panicked(counted, "parse instruction failed")
                 ELSE Exec(counted, i)

\* mutant of StepDecode: no ceiling on the step counter
StepDecodeNoCeiling(c) ==
    LET counted == [c EXCEPT !.step = @ + 1]
    IN  IF MemoryGetPanics(counted.pc) THEN Panicked(counted, "invalid index")
        ELSE LET i == ParseInstruction(counted.pc, counted.memory)
             IN  IF i.err THEN Panicked(counted, "parse instruction failed")
                 ELSE Exec(counted, i)

\* intcode.rs 359-371: count the step, then fetch and decode
StepDecode(c) ==
    LET counted == [c EXCEPT !.step = @ + 1]
    IN  IF counted.step > StepCeiling THEN Panicked(counted, "Too many steps")
        ELSE IF MemoryGetPanics(counted.pc) THEN Panicked(counted, "invalid index")
        ELSE LET i == ParseInstruction(counted.pc, counted.memory)
             IN  IF i.err THEN Panicked(counted, "parse instruction failed")
                 ELSE Exec(counted, i)

\* mutant of Step: a buffered output does not stop the step
StepIgnoringBufferedOutput(c) == StepDecode(c)

\* Computer::step
Step(c) ==
    IF c.output # None THEN Returned(c, "BlockedOnOutput", "", 0)
    ELSE StepDecode(c)

----------------------------------------------------------------------------
(* run: the loop over step.  trace collects the instructions executed.     *)
(* A run that is still Running when the instance has made `limit` steps    *)
(* is outside the model: its ret is "Unbounded" and the host leaves it out.*)

\* mutant of RunStateOf: BlockedOnInput is reported as Finished
RunStateOfMixed(ret) ==
    CASE ret = "BlockedOnInput" -> "Finished"
      [] ret = "BlockedOnOutput" -> "BlockedOnOutput"
      [] ret = "Finished" -> "Finished"
      [] OTHER -> "Running"

\* intcode.rs 305-310: the match of run on step's StepState
RunStateOf(ret) ==
    CASE ret = "BlockedOnInput" -> "BlockedOnInput"
      [] ret = "BlockedOnOutput" -> "BlockedOnOutput"
      [] ret = "Finished" -> "Finished"
      [] OTHER -> "Running"

RECURSIVE RunLoop(_, _, _)
\* Computer::run
RunLoop(c, trace, limit) ==
    LET r == Step(c)
        t == IF r.op = "" THEN trace
             ELSE Append(trace, [op |-> r.op, val |-> r.val, pc |-> c.pc])
    IN  IF r.panic # "" THEN [c |-> r.c, ret |-> "", panic |-> r.panic, trace |-> t]
        ELSE IF RunStateOf(r.ret) # "Running"
        THEN [c |-> r.c, ret |-> RunStateOf(r.ret), panic |-> "", trace |-> t]
        ELSE IF r.c.step >= limit
        THEN [c |-> r.c, ret |-> "Unbounded", panic |-> "", trace |-> t]
        ELSE RunLoop(r.c, t, limit)

Run(c) == RunLoop(c, <<>>, MaxSteps)

----------------------------------------------------------------------------
(* The host-facing queue operations and poke.                              *)

\* mutant of AppendInput: the values go to the front of the queue
AppendInputFront(c, numbers) ==
    [c EXCEPT !.input_buffer = numbers \o @]

\* mutant of AppendInput: a step is made once the numbers are queued
AppendInputSteps(c, numbers) ==
    Step([c EXCEPT !.input_buffer = @ \o numbers]).c

\* Computer::append_input
AppendInput(c, numbers) ==
    [c EXCEPT !.input_buffer = @ \o numbers]

\* intcode.rs 315: `ch as i64` is the code point of the char; a str is the
\* sequence of its chars
CharAsI64(ch) ==
    CASE ch = "A" -> 65
      [] ch = "H" -> 72
      [] ch = "n" -> 110
      [] ch = "\n" -> 10

RECURSIVE AppendStr(_, _)
\* Computer::append_str: one append_input per char, in order
AppendStr(c, str) ==
    IF str = <<>> THEN c
    ELSE AppendStr(AppendInput(c, <<CharAsI64(Head(str))>>), Tail(str))

\* mutant of TakeOutput: the value is returned and stays buffered
TakeOutputPeek(c) ==
    [c |-> c, out |-> c.output]

\* Computer::take_output: Option::take
TakeOutput(c) ==
    [c |-> [c EXCEPT !.output = None], out |-> c.output]

\* mutant of AsChar: 128 is a character too
AsCharThrough128(output) ==
    IF 0 <= output /\ output <= 128 THEN [char |-> TRUE, code |-> output % 256]
    ELSE [char |-> FALSE, code |-> 0]

\* intcode.rs 339-346: a value in 0..128 is pushed `as u8 as char`, any
\* other ends the loop
AsChar(output) ==
    IF 0 <= output /\ output < 128 THEN [char |-> TRUE, code |-> output % 256]
    ELSE [char |-> FALSE, code |-> 0]

\* the return of read_ascii_string: Some(out) unless out is empty
AsciiResult(out) == IF out # <<>> THEN Some(out) ELSE None

RECURSIVE ReadAsciiLoop(_, _, _, _)
\* Computer::read_ascii_string: step until input is wanted, the program
\* finishes or a value that is no character is buffered; the characters
\* are taken from the buffer as they come
ReadAsciiLoop(c, out, trace, limit) ==
    LET r == Step(c)
        t == IF r.op = "" THEN trace
             ELSE Append(trace, [op |-> r.op, val |-> r.val, pc |-> c.pc])
        done == [c |-> r.c, ret |-> "", out |-> out, panic |-> "", trace |-> t]
    IN  IF r.panic # "" THEN [done EXCEPT !.panic = r.panic]
        ELSE IF r.ret \in {"BlockedOnInput", "Finished"} THEN done
        ELSE IF r.ret = "BlockedOnOutput" /\ ~AsChar(r.c.output[1]).char THEN done
        ELSE IF r.c.step >= limit THEN [done EXCEPT !.ret = "Unbounded"]
        ELSE IF r.ret = "BlockedOnOutput"
        THEN ReadAsciiLoop(TakeOutput(r.c).c,
                           Append(out, AsChar(r.c.output[1]).code), t, limit)
        ELSE ReadAsciiLoop(r.c, out, t, limit)

\* mutant of Poke: the cell after index is written
PokeNext(c, index, value) ==
    [c EXCEPT !.memory = MemorySet(@, index + 1, value)]

\* Computer::poke (index within Memory::set's range)
Poke(c, index, value) ==
    [c EXCEPT !.memory = MemorySet(@, index, value)]

\* mutant of MemoryPush: the number goes in front
MemoryPushFront(vec, value) == <<value>> \o vec

\* Memory::push: Vec::push
MemoryPush(vec, value) == Append(vec, value)

\* the loop of Computer::parse: each number of the text pushed in turn on
\* the memory vec
RECURSIVE ParseNumbers(_, _)
ParseNumbers(vec, numbers) ==
    IF numbers = <<>> THEN vec
    ELSE ParseNumbers(MemoryPush(vec, Head(numbers)), Tail(numbers))

\* Memory::new: no cells
MemoryNew == <<>>

\* Computer::new, with the buffer Computer::parse fills
NewComputer(buffer) ==
    [pc |-> 0, memory |-> buffer, relative_base |-> 0, input_buffer |-> <<>>,
     output |-> None, finished |-> FALSE, step |-> 0]

\* #[derive(Clone)] of Memory: Vec::clone copies the cells to a new buffer
CloneMemory(h, from, to) ==
    (to :> h[from]) @@ h

\* mutant of CloneComputer: the clone keeps the original's buffer
CloneComputerShared(c, to) ==
    [pc |-> c.pc, memory |-> c.memory, relative_base |-> c.relative_base,
     input_buffer |-> c.input_buffer, output |-> c.output,
     finished |-> c.finished, step |-> c.step]

\* #[derive(Clone)] of Computer: every field cloned, memory into buffer `to`
CloneComputer(c, to) ==
    [pc |-> c.pc, memory |-> to, relative_base |-> c.relative_base,
     input_buffer |-> c.input_buffer, output |-> c.output,
     finished |-> c.finished, step |-> c.step]

----------------------------------------------------------------------------
(* The inputs of the model.                                                *)

\* intcode.rs 522: test_output_input
EchoProgram == <<3, 0, 4, 0, 99>>
\* intcode.rs 458: test_step_add
AddProgram == <<1, 5, 6, 7, 99, 11, 13, 0>>
\* bin/05.rs 308: equal to 8, position mode
EqualsProgram == <<3, 9, 8, 9, 10, 9, 4, 9, 99, -1, 8>>
\* bin/07.rs 274: two inputs, one output
AmplifierProgram == <<3, 15, 3, 16, 1002, 16, 10, 16, 1, 16, 15, 15, 4, 15, 99, 0, 0>>
\* two outputs in sequence, then an input
TwoOutputsProgram == <<104, 7, 104, 8, 3, 0, 99>>
\* input, output, jump back: echoes for ever
EchoLoopProgram == <<3, 7, 4, 7, 1105, 1, 0, 0>>
\* input and output through the relative base
RelativeEchoProgram == <<109, 3, 203, 4, 204, 4, 99, 0>>

Programs ==
    {EchoProgram, AddProgram, EqualsProgram, AmplifierProgram,
     TwoOutputsProgram, EchoLoopProgram, RelativeEchoProgram}

\* the values a host appends, one or two at a call
InputValues == {5, 8}
InputSlices ==
    {<<v>> : v \in InputValues} \cup {<<v, w>> : v \in InputValues, w \in InputValues}

\* the cells and values a host pokes
PokeIndexes == {-1, 0, 4}
PokeValues == {0, 99, 104}

Original == "original"
Clone == "clone"

----------------------------------------------------------------------------
(* State.                                                                  *)

\* mutant of View: every instance reads the first buffer
ViewOfFirstBuffer(id) == [computers[id] EXCEPT !.memory = heap[1]]

\* the Computer `id` with the contents of its buffer in the memory field
View(id) == [computers[id] EXCEPT !.memory = heap[@]]

\* write the Computer c back to instance `id` and to its buffer
Commit(id, c) ==
    /\ computers' = [computers EXCEPT ![id] = [c EXCEPT !.memory = computers[id].memory]]
    /\ heap' = [heap EXCEPT ![computers[id].memory] = c.memory]

\* the values of the instructions `op` of a trace, in order
Vals(trace, op) ==
    LET s == SelectSeq(trace, LAMBDA e : e.op = op)
    IN  [k \in 1..Len(s) |-> s[k].val]

\* the pc of the last Output instruction of a trace, or `before`
LastOutputPc(trace, before) ==
    LET s == SelectSeq(trace, LAMBDA e : e.op = "Output")
    IN  IF s = <<>> THEN before ELSE s[Len(s)].pc

\* the original's history after the instructions of `trace`
Executed(id, trace) ==
    IF id = Original
    THEN [hist EXCEPT !.consumed = @ \o Vals(trace, "Input"),
                      !.produced = @ \o Vals(trace, "Output"),
                      !.output_pc = LastOutputPc(trace, @)]
    ELSE hist

\* the sum of the values of a sequence
RECURSIVE Sum(_)
Sum(s) == IF s = <<>> THEN 0 ELSE Head(s) + Sum(Tail(s))

\* a host call: n is the number of instructions it executed, args its
\* arguments when it is a poke, adjusted the sum of the values its
\* adjust-relative-base instructions loaded
Call(op, id, ret, out, n) ==
    [op |-> op, id |-> id, ret |-> ret, out |-> out, n |-> n,
     args |-> <<>>, adjusted |-> 0]

\* the call of a step, run or read_ascii_string that executed `trace`
Ran(op, id, ret, out, trace) ==
    [Call(op, id, ret, out, Len(trace)) EXCEPT
        !.adjusted = Sum(Vals(trace, "AdjustRelativeBase"))]

\* Computer::parse of `program`, before any call
Parsed(program) ==
    /\ heap = (1 :> ParseNumbers(MemoryNew, program))
    /\ computers = (Original :> NewComputer(1))
    /\ panicked = ""
    /\ last = Call("parse", Original, "", None, 0)
    /\ hist = [appended |-> <<>>, consumed |-> <<>>, produced |-> <<>>, taken |-> <<>>,
               output_pc |-> -1, program |-> program]
    /\ npokes = 0
    /\ nops = 0
    /\ graph = <<>>
    /\ network = <<>>

Init == \E program \in Programs : Parsed(program)

----------------------------------------------------------------------------
(* The host's calls on instance `id`.                                      *)

DoStep(id) ==
    /\ panicked = ""
    /\ View(id).output # None \/ View(id).step < MaxSteps
    /\ LET r == Step(View(id))
           trace == IF r.op = "" THEN <<>>
                    ELSE <<[op |-> r.op, val |-> r.val, pc |-> View(id).pc]>>
       IN  /\ Commit(id, r.c)
           /\ panicked' = r.panic
           /\ UNCHANGED others
           /\ last' = Ran("step", id, r.ret, None, trace)
           /\ hist' = Executed(id, trace)
    /\ UNCHANGED npokes

\* run within a budget of `limit` steps of the instance
DoRunWithin(id, limit) ==
    /\ panicked = ""
    /\ View(id).output # None \/ View(id).step < limit
    /\ LET r == RunLoop(View(id), <<>>, limit)
       IN  /\ r.ret # "Unbounded"
           /\ Commit(id, r.c)
           /\ panicked' = r.panic
           /\ UNCHANGED others
           /\ last' = Ran("run", id, r.ret, None, r.trace)
           /\ hist' = Executed(id, r.trace)
    /\ UNCHANGED npokes

DoRun(id) == DoRunWithin(id, MaxSteps)

\* read_ascii_string within a budget of `limit` steps of the instance
DoReadAsciiString(id, limit) ==
    /\ panicked = ""
    /\ View(id).output # None \/ View(id).step < limit
    /\ LET r == ReadAsciiLoop(View(id), <<>>, <<>>, limit)
       IN  /\ r.ret # "Unbounded"
           /\ Commit(id, r.c)
           /\ panicked' = r.panic
           /\ UNCHANGED others
           /\ last' = Ran("read_ascii_string", id, "", AsciiResult(r.out), r.trace)
           /\ hist' = IF id = Original
                      THEN [Executed(id, r.trace) EXCEPT !.taken = @ \o r.out]
                      ELSE hist
    /\ UNCHANGED npokes

DoAppendInput(id, numbers) ==
    /\ panicked = ""
    /\ id = Original => Len(hist.appended) + Len(numbers) <= MaxAppended
    /\ Commit(id, AppendInput(View(id), numbers))
    /\ UNCHANGED others
    /\ last' = Call("append_input", id, "", None, 0)
    /\ hist' = IF id = Original THEN [hist EXCEPT !.appended = @ \o numbers] ELSE hist
    /\ UNCHANGED <<panicked, npokes>>

\* append_str: the numbers queued are the codes of the chars
DoAppendStr(id, str) ==
    /\ panicked = ""
    /\ id = Original => Len(hist.appended) + Len(str) <= MaxAppended
    /\ Commit(id, AppendStr(View(id), str))
    /\ UNCHANGED others
    /\ last' = [Call("append_str", id, "", None, 0) EXCEPT !.args = str]
    /\ hist' = IF id = Original
               THEN [hist EXCEPT !.appended = @ \o [i \in 1..Len(str) |-> CharAsI64(str[i])]]
               ELSE hist
    /\ UNCHANGED <<panicked, npokes>>

DoTakeOutput(id) ==
    /\ panicked = ""
    /\ LET r == TakeOutput(View(id))
       IN  /\ Commit(id, r.c)
           /\ UNCHANGED others
           /\ last' = Call("take_output", id, "", r.out, 0)
           /\ hist' = IF id = Original THEN [hist EXCEPT !.taken = @ \o r.out] ELSE hist
    /\ UNCHANGED <<panicked, npokes>>

DoPoke(id, index, value) ==
    /\ panicked = ""
    /\ npokes < MaxPokes
    /\ npokes' = npokes + 1
    /\ UNCHANGED others
    /\ last' = [Call("poke", id, "", None, 0) EXCEPT !.args = <<index, value>>]
    /\ IF MemorySetPanics(index)
       THEN /\ panicked' = "invalid index"
            /\ UNCHANGED <<computers, heap>>
       ELSE /\ Commit(id, Poke(View(id), index, value))
            /\ UNCHANGED panicked
    /\ UNCHANGED hist

----------------------------------------------------------------------------
(* One host driving one Computer.                                          *)

HostStep == DoStep(Original) /\ UNCHANGED nops
HostRun == DoRun(Original) /\ UNCHANGED nops
HostAppendInput ==
    \E numbers \in InputSlices : DoAppendInput(Original, numbers) /\ UNCHANGED nops
HostTakeOutput == DoTakeOutput(Original) /\ UNCHANGED nops
HostPoke ==
    \E index \in PokeIndexes, value \in PokeValues :
        DoPoke(Original, index, value) /\ UNCHANGED nops

Next ==
    \/ HostStep
    \/ HostRun
    \/ HostAppendInput
    \/ HostTakeOutput
    \/ HostPoke

Spec == Init /\ [][Next]_vars

----------------------------------------------------------------------------
(* A host that clones the Computer once, at any point, and drives both     *)
(* instances (bin/19.rs, BeamProber::engaged: clone, append_input, run).   *)
(* Its calls are counted and end at MaxCloneOps.                           *)

Instances == DOMAIN computers

\* the programs the cloning host loads
ClonedPrograms == {EchoProgram, RelativeEchoProgram, TwoOutputsProgram}

InitClone == \E program \in ClonedPrograms : Parsed(program)

Counted == nops < MaxCloneOps /\ nops' = nops + 1

HostClone ==
    /\ panicked = ""
    /\ Clone \notin Instances
    /\ Counted
    /\ computers' = (Clone :> CloneComputer(computers[Original], 2)) @@ computers
    /\ heap' = CloneMemory(heap, computers[Original].memory, 2)
    /\ UNCHANGED others
    /\ last' = Call("clone", Clone, "", None, 0)
    /\ UNCHANGED <<panicked, hist, npokes>>

AnyStep == \E id \in Instances : Counted /\ DoStep(id)
AnyRun == \E id \in Instances : Counted /\ DoRun(id)
AnyAppendInput ==
    \E id \in Instances, numbers \in InputSlices : Counted /\ DoAppendInput(id, numbers)
AnyTakeOutput == \E id \in Instances : Counted /\ DoTakeOutput(id)
AnyPoke ==
    \E id \in Instances, index \in PokeIndexes, value \in PokeValues :
        Counted /\ DoPoke(id, index, value)

NextClone ==
    \/ HostClone
    \/ AnyStep
    \/ AnyRun
    \/ AnyAppendInput
    \/ AnyTakeOutput
    \/ AnyPoke

SpecClone == InitClone /\ [][NextClone]_vars

----------------------------------------------------------------------------
(* Properties of one Computer driven by one host (Spec).                   *)

\* the original, before and after a call
O == View(Original)

\* the instruction step would decode at c.pc, when it decodes one
Decodes(c) ==
    /\ c.output = None
    /\ c.pc >= 0
    /\ ~ParseInstruction(c.pc, c.memory).err

InstructionAt(c) == ParseInstruction(c.pc, c.memory)

\* the last call was a step or a run
Stepped(call) == call.op \in {"step", "run"}

IsPrefix(s, t) == Len(s) <= Len(t) /\ SubSeq(t, 1, Len(s)) = s

\* C1: a step that executes an output instruction buffers the loaded value,
\* advances pc by 2 and returns BlockedOnOutput; a step or run produces at
\* most one value, returns BlockedOnOutput with that value buffered when it
\* produced one, and whenever it returns BlockedOnOutput from an empty slot
\* it has produced exactly one value.
C1_OutputSuspends ==
    [][/\ (/\ last'.op = "step"
           /\ Decodes(O)
           /\ InstructionAt(O).op = "Output"
           /\ ~LoadPanics(O, InstructionAt(O).a))
          => /\ O'.output = Some(Load(O, InstructionAt(O).a))
             /\ O'.pc = O.pc + 2
             /\ last'.ret = "BlockedOnOutput"
             /\ hist'.produced = Append(hist.produced, Load(O, InstructionAt(O).a))
       /\ Stepped(last')
          => LET n == Len(hist'.produced) - Len(hist.produced)
             IN  /\ n \in {0, 1}
                 /\ n = 1 => /\ last'.ret = "BlockedOnOutput"
                             /\ O'.output = Some(hist'.produced[Len(hist'.produced)])
                             /\ O'.pc = hist'.output_pc + 2
                 /\ (last'.ret = "BlockedOnOutput" /\ O.output = None) => n = 1
      ]_vars

\* C1 witness: a run over several instructions came back with the second
\* value the program produced.
C1_Witness ==
    /\ last.op = "run"
    /\ last.n >= 2
    /\ last.ret = "BlockedOnOutput"
    /\ Len(hist.produced) = 2
    /\ O.output = Some(hist.produced[2])

\* C2: with a value buffered, a step or run returns BlockedOnOutput and
\* changes nothing: pc, memory, relative base, input queue, buffered value
\* (nor the step counter, the finished flag or the I/O history).
C2_BufferedOutputBlocks ==
    [][(Stepped(last') /\ panicked = "" /\ O.output # None)
          => /\ O' = O
             /\ last'.ret = "BlockedOnOutput"
             /\ last'.n = 0
             /\ panicked' = ""
             /\ hist' = hist
      ]_vars

\* C2 witness: a step that executed nothing returned BlockedOnOutput while
\* the instruction at pc is another output instruction.
C2_Witness ==
    /\ last.op = "step"
    /\ last.n = 0
    /\ last.ret = "BlockedOnOutput"
    /\ O.output # None
    /\ InstructionAt(O).op = "Output"

\* C3: the values taken, followed by the one still buffered, are the values
\* the output instructions loaded, in order; and the program that outputs
\* 7 and 8 and then reads input, stepped with an empty queue after both
\* were taken, returns BlockedOnInput with <<7, 8>> produced and taken.
C3_OutputsInOrder ==
    /\ hist.produced = hist.taken \o O.output
    /\ (/\ O.memory = TwoOutputsProgram
        /\ O.pc = 4
        /\ O.output = None
        /\ O.input_buffer = <<>>
        /\ Stepped(last))
       => /\ last.ret = "BlockedOnInput"
          /\ hist.produced = <<7, 8>>
          /\ hist.taken = <<7, 8>>

\* C3 witness: both values taken in order, then BlockedOnInput.
C3_Witness ==
    /\ O.memory = TwoOutputsProgram
    /\ hist.taken = <<7, 8>>
    /\ last.op = "step"
    /\ last.ret = "BlockedOnInput"

\* C4 as claimed: a step at an input instruction with an empty queue returns
\* BlockedOnInput and mutates no state of the interpreter.
C4_BlockedInputMutatesNothing ==
    [][(/\ last'.op = "step"
        /\ panicked = ""
        /\ Decodes(O)
        /\ InstructionAt(O).op = "Input"
        /\ O.input_buffer = <<>>)
          => /\ last'.ret = "BlockedOnInput"
             /\ O' = O
      ]_vars

\* C4 amended: a step at an input instruction with an empty queue returns
\* BlockedOnInput having changed nothing but the step counter, which it
\* increments; pc does not advance and the same input instruction is the
\* one the next step decodes; once a value is appended after the blocked
\* step, the next step executes that input instruction with the value.
C4_BlockedInputCountsStep ==
    [][/\ (/\ last'.op = "step"
           /\ panicked = ""
           /\ Decodes(O)
           /\ InstructionAt(O).op = "Input"
           /\ O.input_buffer = <<>>)
          => /\ last'.ret = "BlockedOnInput"
             /\ last'.n = 0
             /\ panicked' = ""
             /\ O' = [O EXCEPT !.step = @ + 1]
             /\ hist' = hist
             /\ Decodes(O') /\ InstructionAt(O') = InstructionAt(O)
       /\ (/\ last.op = "step" /\ last.ret = "BlockedOnInput"
           /\ last'.op = "append_input")
          => \/ Step(O').panic # ""
             \/ /\ Step(O').ret = "Running"
                /\ Step(O').op = "Input"
                /\ Step(O').val = Head(O'.input_buffer)
                /\ Step(O').c.pc = O.pc + 2
      ]_vars

\* C4 witness: the input instruction was attempted twice on an empty queue.
C4_Witness ==
    /\ last.op = "step"
    /\ last.ret = "BlockedOnInput"
    /\ last.n = 0
    /\ O.step >= 2
    /\ O.pc = 0
    /\ hist.appended = <<>>

\* C5: a step at an input instruction with a non-empty queue that returns
\* removes the front value, stores it at the operand's target, advances pc
\* by 2 and returns Running; a step or run that returns BlockedOnInput
\* leaves an empty queue with the input instruction at pc.
C5_BufferedInputContinues ==
    [][/\ (/\ last'.op = "step"
           /\ panicked = "" /\ panicked' = ""
           /\ Decodes(O)
           /\ InstructionAt(O).op = "Input"
           /\ O.input_buffer # <<>>)
          => /\ last'.ret = "Running"
             /\ O' = [O EXCEPT
                        !.input_buffer = Tail(@),
                        !.memory = MemorySet(@, StoreAddress(O, InstructionAt(O).a),
                                             Head(O.input_buffer)),
                        !.pc = @ + 2,
                        !.step = @ + 1]
             /\ hist'.consumed = Append(hist.consumed, Head(O.input_buffer))
       /\ (Stepped(last') /\ last'.ret = "BlockedOnInput")
          => /\ O'.input_buffer = <<>>
             /\ Decodes(O') /\ InstructionAt(O').op = "Input"
      ]_vars

\* C5 witness: one run consumed an input and went on to the next suspension.
C5_Witness ==
    /\ last.op = "run"
    /\ last.n >= 2
    /\ last.n = O.step
    /\ hist.consumed # <<>>
    /\ last.ret = "BlockedOnOutput"

\* C6: the values stored by input instructions are, in order, the first
\* values ever appended, and while the process runs the values appended are
\* exactly those stored followed by those still queued.
C6_InputIsFifo ==
    /\ IsPrefix(hist.consumed, hist.appended)
    /\ panicked = "" => hist.appended = hist.consumed \o O.input_buffer

\* C6 witness: two different values were stored, one is still queued.
C6_Witness ==
    /\ Len(hist.consumed) = 2
    /\ hist.consumed[1] # hist.consumed[2]
    /\ panicked = ""

\* C7: take_output returns the buffered value and clears the slot, changing
\* nothing else (so with nothing buffered it returns no value and changes
\* nothing); after a value was taken pc is the cell after the producing
\* output instruction, and a following step that returns BlockedOnOutput
\* has executed the output instruction at that pc.
C7_TakeOutput ==
    [][/\ last'.op = "take_output"
          => /\ last'.out = O.output
             /\ O' = [O EXCEPT !.output = None]
             /\ hist'.taken = hist.taken \o O.output
             /\ panicked' = panicked
             /\ last'.out # None => O'.pc = hist'.output_pc + 2
       /\ (/\ last.op = "take_output" /\ last.out # None
           /\ last'.op = "step" /\ last'.ret = "BlockedOnOutput")
          => /\ last'.n = 1
             /\ hist'.output_pc = O.pc
      ]_vars

\* C7 witness: a value was taken and the next output instruction was
\* executed by the following step.
C7_Witness ==
    /\ last.op = "step"
    /\ last.ret = "BlockedOnOutput"
    /\ Len(hist.taken) = 1
    /\ Len(hist.produced) = 2
    /\ hist.output_pc = 2

\* C8 as claimed: once finished, the flag stays set, pc and relative base
\* never change and memory changes only by poke.
C8_FinishedIsTerminal ==
    [][O.finished
          => /\ O'.finished
             /\ O'.pc = O.pc
             /\ O'.relative_base = O.relative_base
             /\ O'.memory # O.memory => last'.op = "poke"
      ]_vars

\* the Computer after k steps of c, and the result of the k-th
RECURSIVE AfterSteps(_, _)
AfterSteps(c, k) ==
    IF k = 0 THEN c ELSE Step(AfterSteps(c, k - 1)).c

KthStep(c, k) == Step(AfterSteps(c, k - 1))

Stops(r) == r.panic # "" \/ r.ret # "Running"

\* C9: a run ends as the first of the repeated steps that does not return
\* Running: it returns that step's outcome (or ends in its panic) and
\* leaves the state that this sequence of steps leaves.
C9_RunIsIteratedStep ==
    [][(last'.op = "run" /\ panicked = "")
          => \E n \in 1..(MaxSteps + 1) :
                /\ \A k \in 1..(n - 1) : ~Stops(KthStep(O, k))
                /\ Stops(KthStep(O, n))
                /\ O' = KthStep(O, n).c
                /\ last'.ret = KthStep(O, n).ret
                /\ panicked' = KthStep(O, n).panic
      ]_vars

\* C9 witness: a run of at least three instructions ended in Finished.
C9_Witness ==
    /\ last.op = "run"
    /\ last.n >= 3
    /\ last.ret = "Finished"

----------------------------------------------------------------------------
(* Properties of a Computer and its clone (SpecClone).                     *)

\* C10: at the clone point the clone's memory, pc, relative base, input
\* queue, buffered output and finished flag equal the original's, which the
\* clone leaves unchanged; afterwards a call on one instance leaves every
\* component of the other unchanged.
C10_CloneIndependence ==
    [][/\ (Clone \notin DOMAIN computers /\ Clone \in DOMAIN computers')
          => /\ View(Clone)' = View(Original)
             /\ View(Original)' = View(Original)
       /\ Clone \in DOMAIN computers
          => \A id \in {Original, Clone} :
                last'.id # id => View(id)' = View(id)
      ]_vars

\* C10 witness: cloned after the original had started, then both driven:
\* the original has made a call since, and the memories and input queues
\* of the two differ.
C10_Witness ==
    /\ Clone \in DOMAIN computers
    /\ View(Clone).step >= 1
    /\ View(Original).step > View(Clone).step
    /\ View(Clone).memory # View(Original).memory
    /\ View(Clone).input_buffer # View(Original).input_buffer

----------------------------------------------------------------------------
(* tests::run_program: parse the program text, append one input number,    *)
(* then run, taking each output, until run reports Finished.  A run that   *)
(* blocks on input ends the harness with a panic.  hist.taken is the       *)
(* vector the harness returns.                                             *)

\* bin/05.rs 317: equal to 8, immediate mode
EqualsImmediateProgram == <<3, 3, 1108, -1, 8, 3, 4, 3, 99>>
\* bin/05.rs 326: less than 8, position mode
LessThanProgram == <<3, 9, 7, 9, 10, 9, 4, 9, 99, -1, 8>>
\* bin/05.rs 337: less than 8, immediate mode
LessThanImmediateProgram == <<3, 3, 1107, -1, 8, 3, 4, 3, 99>>
\* bin/05.rs 348: input is non-zero, position mode
JumpProgram == <<3, 12, 6, 12, 15, 1, 13, 14, 13, 4, 13, 99, -1, 0, 1, 9>>
\* bin/05.rs 359: input is non-zero, immediate mode
JumpImmediateProgram == <<3, 3, 1105, -1, 9, 1101, 0, 0, 12, 4, 12, 99, 1>>
\* bin/09.rs 430: a program that outputs its own text
QuineProgram ==
    <<109, 1, 204, -1, 1001, 100, 1, 100, 1008, 100, 16, 101, 1006, 101, 0, 99>>

\* intcode.rs 507: a product of 16 digits
WideMultiplyProgram == <<1102, 34915192, 34915192, 7, 4, 7, 99, 0>>
\* intcode.rs 515: 104,1125899906842624,99
LargeOutputProgram ==
    <<104, ParseWord(FALSE, <<1, 1, 2, 5, 8, 9, 9, 9, 0, 6, 8, 4, 2, 6, 2, 4>>), 99>>

HarnessPrograms ==
    {EchoProgram, EqualsProgram, EqualsImmediateProgram, LessThanProgram,
     LessThanImmediateProgram, JumpProgram, JumpImmediateProgram, QuineProgram,
     AmplifierProgram, WideMultiplyProgram, LargeOutputProgram}

\* the input numbers: around zero and the tests' 8, and test_output_input's 42
HarnessInputs == (-MaxHarnessInput..MaxHarnessInput) \cup {42}

InitHarness == \E program \in HarnessPrograms : Parsed(program)

\* intcode.rs 480: computer.append_input(&[input_number])
HarnessAppendInput ==
    /\ last.op = "parse"
    /\ \E input_number \in HarnessInputs : DoAppendInput(Original, <<input_number>>)
    /\ UNCHANGED nops

\* intcode.rs 483: computer.run() at the head of the loop
HarnessRun ==
    /\ last.op \in {"append_input", "take_output"}
    /\ DoRunWithin(Original, MaxHarnessSteps)
    /\ UNCHANGED nops

\* intcode.rs 485: output.push(computer.take_output().unwrap())
HarnessTakeOutput ==
    /\ last.op = "run"
    /\ last.ret = "BlockedOnOutput"
    /\ DoTakeOutput(Original)
    /\ UNCHANGED nops

\* intcode.rs 484: panic!("Input exhausted!")
HarnessInputExhausted ==
    /\ panicked = ""
    /\ last.op = "run"
    /\ last.ret = "BlockedOnInput"
    /\ panicked' = "Input exhausted!"
    /\ UNCHANGED others
    /\ last' = Call("panic", Original, "", None, 0)
    /\ UNCHANGED <<computers, heap, hist, npokes, nops>>

NextHarness ==
    \/ HarnessAppendInput
    \/ HarnessRun
    \/ HarnessTakeOutput
    \/ HarnessInputExhausted

SpecHarness == InitHarness /\ [][NextHarness]_vars

\* run_program has returned: run reported Finished (intcode.rs 486)
HarnessReturned == last.op = "run" /\ panicked = "" /\ last.ret = "Finished"

\* the input number run_program was called with
HarnessInput == hist.appended[1]

\* what the next run of the harness reports
NextRunState == RunLoop(O, <<>>, MaxHarnessSteps).ret

----------------------------------------------------------------------------
(* Properties of programs under run_program (SpecHarness).                 *)

\* C11: the program 3,0,4,0,99 with v appended, driven by run and
\* take_output, never panics nor blocks on input; its first run reports
\* BlockedOnOutput with v buffered, the run after v was taken reports
\* Finished, and the outputs taken are then exactly [v].
C11_EchoRoundTrip ==
    (hist.program = EchoProgram /\ hist.appended # <<>>)
        => /\ panicked = ""
           /\ last.op = "append_input" => NextRunState = "BlockedOnOutput"
           /\ last.op = "run" =>
                IF hist.taken = <<>>
                THEN last.ret = "BlockedOnOutput" /\ O.output = Some(HarnessInput)
                ELSE HarnessReturned
           /\ last.op = "take_output" =>
                /\ hist.taken = <<HarnessInput>>
                /\ NextRunState = "Finished"
           /\ HarnessReturned => hist.taken = <<HarnessInput>>

\* C11 witness: run_program("3,0,4,0,99", 42) returned [42].
C11_Witness ==
    /\ hist.program = EchoProgram
    /\ hist.appended = <<42>>
    /\ HarnessReturned
    /\ hist.taken = <<42>>

\* C14: the quine under run_program never panics nor blocks on input; the
\* outputs taken are at every point a prefix of its own text, each run
\* blocks on output until all 16 cells were taken and the next reports
\* Finished; at the return the outputs are the 16 initial cells in order,
\* the relative base is 16 and memory has grown to cells 100 and 101.
C14_Quine ==
    (hist.program = QuineProgram /\ hist.appended # <<>>)
        => /\ panicked = ""
           /\ IsPrefix(hist.taken, QuineProgram)
           /\ last.op \in {"append_input", "take_output"} =>
                NextRunState = IF Len(hist.taken) < Len(QuineProgram)
                               THEN "BlockedOnOutput" ELSE "Finished"
           /\ last.op = "run" =>
                IF Len(hist.taken) < Len(QuineProgram)
                THEN /\ last.ret = "BlockedOnOutput"
                     /\ O.output = Some(QuineProgram[Len(hist.taken) + 1])
                     /\ O.relative_base = Len(hist.taken) + 1
                ELSE HarnessReturned
           /\ HarnessReturned =>
                /\ hist.taken = QuineProgram
                /\ O.relative_base = Len(QuineProgram)
                /\ SubSeq(O.memory, 1, Len(QuineProgram)) = QuineProgram
                /\ Len(O.memory) = 102
                /\ O.memory[101] = 16
                /\ O.memory[102] = 1

\* C14 witness: run_program(quine, 0) returned with 16 outputs taken.
C14_Witness ==
    /\ hist.program = QuineProgram
    /\ hist.appended = <<0>>
    /\ HarnessReturned
    /\ Len(hist.taken) = 16
    /\ hist.taken[4] = -1

----------------------------------------------------------------------------
(* bin/02.rs: the add/multiply machine of day 2, which reads and writes    *)
(* through indexing of its Vec<u32> and knows the opcodes 1, 2 and 99.     *)
(* A Day2 computer is [pc, data, fault]; fault is "" or the panic.  The    *)
(* programs drawn keep every value far below 2^32.                         *)

\* parse_computer_string
Day2Parse(program) == [pc |-> 0, data |-> program, fault |-> ""]

\* Computer::get panics when the index is out of bounds
Day2GetPanics(c, address) == address >= Len(c.data)

\* Computer::get
Day2Get(c, address) == c.data[address + 1]

\* Computer::opcode: "" for the panic "Invalid instruction"
Day2Opcode(c) ==
    LET instruction == Day2Get(c, c.pc)
    IN  CASE instruction = 1 -> "Add"
          [] instruction = 2 -> "Multiply"
          [] instruction = 99 -> "Finished"
          [] OTHER -> ""

\* Computer::opderef panics in one of its two get calls
Day2OpderefPanics(c, index) ==
    \/ Day2GetPanics(c, c.pc + index)
    \/ Day2GetPanics(c, Day2Get(c, c.pc + index))

\* Computer::opderef
Day2Opderef(c, index) == Day2Get(c, Day2Get(c, c.pc + index))

\* Computer::opput panics in get or in the indexed assignment
Day2OpputPanics(c) ==
    \/ Day2GetPanics(c, c.pc + 3)
    \/ Day2GetPanics(c, Day2Get(c, c.pc + 3))

\* Computer::opput
Day2Opput(c, value) == [c EXCEPT !.data[Day2Get(c, c.pc + 3) + 1] = value]

\* Computer::step: opcode() panics on an index out of bounds or on a word
\* that is no opcode, and Finished panics in step itself
Day2Step(c) ==
    IF Day2GetPanics(c, c.pc) THEN [c EXCEPT !.fault = "index out of bounds"]
    ELSE IF Day2Opcode(c) = "" THEN [c EXCEPT !.fault = "Invalid instruction"]
    ELSE IF Day2Opcode(c) = "Finished"
    THEN [c EXCEPT !.fault = "Step called on a finished program!"]
    ELSE IF Day2OpderefPanics(c, 1) \/ Day2OpderefPanics(c, 2) \/ Day2OpputPanics(c)
    THEN [c EXCEPT !.fault = "index out of bounds"]
    ELSE LET value == IF Day2Opcode(c) = "Add"
                      THEN Day2Opderef(c, 1) + Day2Opderef(c, 2)
                      ELSE Day2Opderef(c, 1) * Day2Opderef(c, 2)
         IN  [Day2Opput(c, value) EXCEPT !.pc = @ + 4]

\* Computer::done
Day2Done(c) == Day2Opcode(c) = "Finished"

RECURSIVE Day2Steps(_, _)
\* the loop `while !self.done() { self.step() }`, for at most k rounds
Day2Steps(c, k) ==
    IF c.fault # "" \/ k = 0 THEN c
    ELSE IF Day2GetPanics(c, c.pc) THEN [c EXCEPT !.fault = "index out of bounds"]
    ELSE IF Day2Opcode(c) = "" THEN [c EXCEPT !.fault = "Invalid instruction"]
    ELSE IF Day2Done(c) THEN c
    ELSE Day2Steps(Day2Step(c), k - 1)

\* Computer::run(noun, verb): data[1] = noun, data[2] = verb, then the loop
\* for at most k rounds; either write panics beyond the Vec
Day2Run(c, noun, verb, k) ==
    IF Len(c.data) < 2 THEN [c EXCEPT !.fault = "index out of bounds"]
    ELSE IF Len(c.data) < 3
    THEN [c EXCEPT !.data[2] = noun, !.fault = "index out of bounds"]
    ELSE Day2Steps([c EXCEPT !.data[2] = noun, !.data[3] = verb], k)

----------------------------------------------------------------------------
(* A host that steps or runs a program of two add/multiply instructions    *)
(* and a halt, of the shape of bin/02.rs test_part_one.                    *)

\* bin/02.rs 137: 1,9,10,3,2,3,11,0,99,30,40,50
Day2Program == <<1, 9, 10, 3, 2, 3, 11, 0, 99, 30, 40, 50>>

\* the cells the two instructions read, and the cells they write
ArithSources == {3, 9, 10, 11}
ArithTargets == {0, 3, 4, 12}

ArithPrograms ==
    {<<o1, a1, b1, c1, o2, a2, b2, c2, 99, 30, 40, 50>> :
        o1 \in {1, 2}, a1 \in ArithSources, b1 \in ArithSources, c1 \in ArithTargets,
        o2 \in {1, 2}, a2 \in ArithSources, b2 \in ArithSources, c2 \in ArithTargets}

InitArith == \E program \in ArithPrograms : Parsed(program)

NextArith ==
    \/ HostStep
    \/ HostRun

SpecArith == InitArith /\ [][NextArith]_vars

\* the arguments of run: the reference is run on the program the interpreter
\* was given, so noun and verb are cells 1 and 2 of its text
Noun == hist.program[2]
Verb == hist.program[3]

\* the day 2 machine after run(Noun, Verb) made at most k instructions
Reference(k) == Day2Run(Day2Parse(hist.program), Noun, Verb, k)

\* the program is valid: the day 2 machine runs it to its halt
ValidArith == Reference(MaxSteps).fault = "" /\ Day2Done(Reference(MaxSteps))

\* C12: on a valid add/multiply program the interpreter never panics and
\* after k steps its memory and pc equal those of the reference machine
\* after k instructions (at most, up to the halt); a run from any of these
\* points reports Finished with the memory the reference ends with.
C12_ArithMatchesReference ==
    ValidArith
        => /\ panicked = ""
           /\ O.memory = Reference(O.step).data
           /\ O.pc = Reference(O.step).pc
           /\ Run(O).ret = "Finished"
           /\ Run(O).c.memory = Reference(MaxSteps).data
           /\ last.ret = "Finished" =>
                /\ O.memory = Reference(MaxSteps).data
                /\ Day2Done(Reference(O.step))
           /\ last.op = "run" => last.ret = "Finished"

\* C12 witness: the day 2 example was run to Finished in one call and left
\* 3500 in cell 0 and 70 in cell 3.
C12_Witness ==
    /\ hist.program = Day2Program
    /\ last.op = "run"
    /\ last.n = 3
    /\ last.ret = "Finished"
    /\ O.memory[1] = 3500
    /\ O.memory[4] = 70

----------------------------------------------------------------------------
(* A host that steps through one instruction of every opcode and mode.     *)
(* The program jumps over three data cells, sets the relative base to 1    *)
(* and reaches the instruction at cell 8; a halt follows its operands.     *)
(* The host may append one input number before the first step.             *)

\* cells 0..7: jump to 6 over the data 5, 8, 8, then relative base += 1
StepPrefix == <<1105, 1, 6, 5, 8, 8, 109, 1>>

\* where the instruction stands, and the relative base it runs under
StepPc == 8
StepBase == 1

\* the instruction word with opcode op and the mode digits of its operands
InstructionWord(op, ma, mb, mc) == op + 100 * ma + 1000 * mb + 10000 * mc

ModeDigits == 0..2

\* raw operand values: a negative address in both addressing modes, the
\* data cells, a cell beyond the extent
OperandValues == {-2, 3, 4, 5, 20}
\* raw values of a store target
TargetValues == {-2, 3, 20}

\* words that are a halt, a halt or an output under digits beyond their
\* operands, or no opcode: 0, 10..98, a multiple of 100, negative cells
OtherWords == {99, 199, 3004, 0, 10, 98, 100, 301, -1, -99, -101, -1101}

\* mode digits of three operands with a digit that is no mode
BadModes == {<<3, 0, 0>>, <<0, 3, 0>>, <<0, 0, 3>>, <<1, 9, 2>>}

\* words that end the program text: their operands lie beyond the extent
TailWords == {1, 1101, 3, 4, 104, 204, 1105, 1106, 109, 99}

\* the input numbers of bin/05.rs' comparison tests: 8 and its neighbours
StepInputs == {7, 8, 9}

StepPrograms ==
    {StepPrefix \o <<InstructionWord(op, ma, mb, mc), a, b, c, 99>> :
        op \in {1, 2, 7, 8}, ma \in ModeDigits, mb \in ModeDigits, mc \in ModeDigits,
        a \in OperandValues, b \in OperandValues, c \in TargetValues}
    \cup
    {StepPrefix \o <<InstructionWord(op, ma, mb, 0), a, b, 99>> :
        op \in {5, 6}, ma \in ModeDigits, mb \in ModeDigits,
        a \in OperandValues, b \in OperandValues}
    \cup
    {StepPrefix \o <<InstructionWord(op, ma, 0, 0), a, 99>> :
        op \in {3, 4, 9}, ma \in ModeDigits, a \in OperandValues}
    \cup
    {StepPrefix \o <<w, 3, 4, 3, 99>> : w \in OtherWords}
    \cup
    {StepPrefix \o <<InstructionWord(op, m[1], m[2], m[3]), 3, 4, 3, 99>> :
        op \in 1..9, m \in BadModes}
    \cup
    {StepPrefix \o <<w>> : w \in TailWords}
    \cup
    {EqualsProgram, EqualsImmediateProgram, LessThanProgram, LessThanImmediateProgram}

InitStep == \E program \in StepPrograms : Parsed(program)

StepAppendInput ==
    /\ last.op = "parse"
    /\ \E input_number \in StepInputs : DoAppendInput(Original, <<input_number>>)
    /\ UNCHANGED nops

NextStep ==
    \/ StepAppendInput
    \/ HostStep

SpecStep == InitStep /\ [][NextStep]_vars

\* the step just made decoded and executed the instruction I of opcode op
\* without a panic
Executes(op) ==
    /\ last'.op = "step"
    /\ Decodes(O)
    /\ InstructionAt(O).op = op
    /\ panicked' = ""

\* the instruction the step just made decoded
I == InstructionAt(O)

\* the cell at address k of a memory, 0 beyond its extent
Cell(vec, k) == IF k < Len(vec) THEN vec[k + 1] ELSE 0

\* memory vec with the cell at address k (from 0) set to v, zero-filled
\* up to k when k is beyond the extent
WithCell(vec, k, v) ==
    [n \in 1..(IF k + 1 > Len(vec) THEN k + 1 ELSE Len(vec)) |->
        IF n = k + 1 THEN v ELSE IF n <= Len(vec) THEN vec[n] ELSE 0]

----------------------------------------------------------------------------
(* Properties of single instructions (SpecStep).                           *)

\* the comparison programs of bin/05.rs: equal to 8, less than 8
EqualsPrograms == {EqualsProgram, EqualsImmediateProgram}
LessThanPrograms == {LessThanProgram, LessThanImmediateProgram}

\* C15: a step that executes less-than (equals) stores 1 at operand c when
\* load(a) < load(b) (load(a) = load(b)) and 0 otherwise, changes no other
\* cell, advances pc by 4 and returns Running; and the output step of a
\* program comparing its input with 8 produces 1 exactly when the input
\* equals 8 (equals programs) or is below 8 (less-than programs), in
\* position and in immediate mode.
C15_Compare ==
    [][/\ \A op \in {"LessThan", "Equals"} :
            Executes(op) =>
                LET holds == IF op = "LessThan" THEN Load(O, I.a) < Load(O, I.b)
                             ELSE Load(O, I.a) = Load(O, I.b)
                IN  /\ O'.memory = WithCell(O.memory, StoreAddress(O, I.c),
                                            IF holds THEN 1 ELSE 0)
                    /\ O'.pc = O.pc + 4
                    /\ last'.ret = "Running"
       /\ (Executes("Output") /\ hist.program \in EqualsPrograms)
            => hist'.produced = <<IF HarnessInput = 8 THEN 1 ELSE 0>>
       /\ (Executes("Output") /\ hist.program \in LessThanPrograms)
            => hist'.produced = <<IF HarnessInput < 8 THEN 1 ELSE 0>>
      ]_vars

\* C15 witness: the immediate-mode less-than program was given 7, stored 1
\* in cell 3 and produced it.
C15_Witness ==
    /\ hist.program = LessThanImmediateProgram
    /\ hist.appended = <<7>>
    /\ hist.produced = <<1>>
    /\ O.memory[4] = 1
    /\ O.pc = 8

\* C16: a step that executes jump-if-true (jump-if-false) sets pc to
\* load(b) when load(a) is non-zero (zero) and to pc + 3 otherwise, returns
\* Running, and leaves memory, the relative base, the input queue, the
\* buffered output and the I/O history unchanged.
C16_Jumps ==
    [][\A op \in {"JumpIfTrue", "JumpIfFalse"} :
         Executes(op) =>
            LET taken == IF op = "JumpIfTrue" THEN Load(O, I.a) # 0
                         ELSE Load(O, I.a) = 0
            IN  /\ O'.pc = IF taken THEN Load(O, I.b) ELSE O.pc + 3
                /\ O'.memory = O.memory
                /\ O'.relative_base = O.relative_base
                /\ O'.input_buffer = O.input_buffer
                /\ O'.output = O.output
                /\ hist' = hist
                /\ last'.ret = "Running"
      ]_vars

\* C16 witness: jump-if-false on the cell beyond the extent (0) was taken
\* to the immediate target 5.
C16_Witness ==
    /\ hist.program = StepPrefix \o <<InstructionWord(6, 0, 1, 0), 20, 5, 99>>
    /\ last.op = "step"
    /\ O.step = 3
    /\ O.pc = 5

\* C17: a step that executes an instruction without a panic advances pc
\* by 4 for add, multiply, less-than and equals, by 3 for a jump that is
\* not taken, by 2 for an input that found a value, for output and for
\* adjust-relative-base, and by 0 for halt.
C17_PcAdvance ==
    [][/\ \A op \in {"Add", "Multiply", "LessThan", "Equals"} :
            Executes(op) => O'.pc = O.pc + 4
       /\ (Executes("JumpIfTrue") /\ Load(O, I.a) = 0) => O'.pc = O.pc + 3
       /\ (Executes("JumpIfFalse") /\ Load(O, I.a) # 0) => O'.pc = O.pc + 3
       /\ (Executes("Input") /\ O.input_buffer # <<>>) => O'.pc = O.pc + 2
       /\ Executes("Output") => O'.pc = O.pc + 2
       /\ Executes("AdjustRelativeBase") => O'.pc = O.pc + 2
       /\ Executes("Finished") => O'.pc = O.pc
      ]_vars

\* C17 witness: an add was executed at cell 8 and the halt after it at
\* cell 12, where pc stays.
C17_Witness ==
    /\ hist.program = StepPrefix \o <<InstructionWord(1, 1, 1, 0), 3, 4, 20, 99>>
    /\ last.op = "step"
    /\ last.ret = "Finished"
    /\ O.step = 4
    /\ O.pc = StepPc + 4
    /\ Cell(O.memory, 20) = 7

\* the mode digit of operand k (1, 2, 3) in a non-negative instruction word
ModeDigit(word, k) ==
    (word \div (CASE k = 1 -> 100 [] k = 2 -> 1000 [] OTHER -> 10000)) % 10

\* operand k of the instruction at c.pc, read from the cells themselves:
\* its mode digit, its raw value, and the address it names in mode 0 or 2
OperandDigit(c, k) == ModeDigit(Cell(c.memory, c.pc), k)
OperandRaw(c, k) == Cell(c.memory, c.pc + k)
OperandAddress(c, k) ==
    IF OperandDigit(c, k) = 0 THEN OperandRaw(c, k)
    ELSE c.relative_base + OperandRaw(c, k)

\* operand k of a decoded instruction
Operand(i, k) == CASE k = 1 -> i.a [] k = 2 -> i.b [] OTHER -> i.c

\* C18: for each operand k of the instruction decoded at pc, the raw value
\* is the cell memory[pc + k]; load returns the raw value in immediate
\* mode, memory[raw] in position mode and memory[relative_base + raw] in
\* relative mode (addresses from 0 on, 0 beyond the extent).  An output
\* step has buffered the value so resolved for its operand.
C18_Load ==
    /\ Decodes(O) =>
         \A k \in 1..Arity(I.op) :
            LET p == Operand(I, k)
            IN  /\ p.value = OperandRaw(O, k)
                /\ OperandDigit(O, k) = 1 =>
                     ~LoadPanics(O, p) /\ Load(O, p) = OperandRaw(O, k)
                /\ (OperandDigit(O, k) # 1 /\ OperandAddress(O, k) >= 0) =>
                     /\ ~LoadPanics(O, p)
                     /\ Load(O, p) = Cell(O.memory, OperandAddress(O, k))
    /\ (last.op = "step" /\ last.n = 1 /\ last.ret = "BlockedOnOutput") =>
         LET before == [O EXCEPT !.pc = hist.output_pc]
         IN  O.output = Some(IF OperandDigit(before, 1) = 1 THEN OperandRaw(before, 1)
                             ELSE Cell(O.memory, OperandAddress(before, 1)))

\* C18 witness: an output in relative mode, raw value 3 under base 1, has
\* produced cell 4.
C18_Witness ==
    /\ hist.program = StepPrefix \o <<InstructionWord(4, 2, 0, 0), 3, 99>>
    /\ last.op = "step"
    /\ O.relative_base = StepBase
    /\ O.output = Some(8)
    /\ hist.produced = <<O.memory[5]>>

\* the storing opcodes, the index of their target operand and the value
\* they store
Storing == {"Add", "Multiply", "Input", "LessThan", "Equals"}
TargetIndex(op) == IF op = "Input" THEN 1 ELSE 3
StoredValue(c, i) ==
    CASE i.op = "Add" -> Load(c, i.a) + Load(c, i.b)
      [] i.op = "Multiply" -> Load(c, i.a) * Load(c, i.b)
      [] i.op = "Input" -> Head(c.input_buffer)
      [] i.op = "LessThan" -> IF Load(c, i.a) < Load(c, i.b) THEN 1 ELSE 0
      [] OTHER -> IF Load(c, i.a) = Load(c, i.b) THEN 1 ELSE 0

\* the step just made decoded a storing instruction and reached its store:
\* an input found a value, the other opcodes loaded both sources
ReachesStore ==
    /\ last'.op = "step"
    /\ Decodes(O)
    /\ I.op \in Storing
    /\ IF I.op = "Input" THEN O.input_buffer # <<>>
       ELSE ~LoadPanics(O, I.a) /\ ~LoadPanics(O, I.b)

\* C19: a storing instruction (add, multiply, input, less-than, equals)
\* whose store is reached writes its value v to memory[raw] when the
\* target is in position mode and to memory[relative_base + raw] when it
\* is in relative mode (addresses within Memory::set's range), changing no
\* other cell; with the target in immediate mode the step panics and
\* memory is unchanged.
C19_Store ==
    [][ReachesStore =>
         LET k == TargetIndex(I.op)
             address == OperandAddress(O, k)
         IN  IF OperandDigit(O, k) = 1
             THEN /\ panicked' = "storing to an immediate parameter is not not implemented"
                  /\ O'.memory = O.memory
             ELSE (0 <= address /\ address < MemorySetLimit) =>
                     /\ panicked' = ""
                     /\ O'.memory = WithCell(O.memory, address, StoredValue(O, I))
      ]_vars

\* C19 witness: an input with an immediate target took 7 from the queue
\* and panicked in store, memory as loaded.
C19_Witness ==
    /\ hist.program = StepPrefix \o <<InstructionWord(3, 1, 0, 0), 3, 99>>
    /\ hist.appended = <<7>>
    /\ panicked = "storing to an immediate parameter is not not implemented"
    /\ O.input_buffer = <<>>
    /\ O.memory = hist.program

\* the value operand k denotes: its raw value, or the cell it addresses
Denoted(c, k) ==
    IF OperandDigit(c, k) = 1 THEN OperandRaw(c, k)
    ELSE Cell(c.memory, OperandAddress(c, k))

\* operand k is an immediate or addresses a cell (from 0 on)
Denotes(c, k) == OperandDigit(c, k) = 1 \/ OperandAddress(c, k) >= 0

\* raw values the sources of a variant take: addresses and values of the
\* data cells, in relative mode too
VariantValues == OperandValues \cup {2, 8}

\* the computer c with the add at pc given source modes ma, mb and raw
\* source values a, b; the target operand is kept
Variant(c, ma, mb, a, b) ==
    [c EXCEPT !.memory =
        WithCell(WithCell(WithCell(@,
            c.pc, InstructionWord(1, ma, mb, OperandDigit(c, 3))),
            c.pc + 1, a),
            c.pc + 2, b)]

\* v is the same logical add as c: each source denotes the same value
SameAdd(c, v) ==
    \A k \in {1, 2} : Denotes(v, k) /\ Denoted(v, k) = Denoted(c, k)

\* an add that executes without a panic is next
AddReady(c) ==
    /\ Decodes(c)
    /\ InstructionAt(c).op = "Add"
    /\ Step(c).panic = ""

\* C20: when an add is about to execute, the same logical add with its
\* sources given in any other modes (immediate value, position-mode
\* address or relative-mode offset of a cell holding the value) executes
\* too, stores the same result at the target and leaves the same pc.
C20_ModeInvariance ==
    AddReady(O) =>
        \A ma \in ModeDigits, mb \in ModeDigits, a \in VariantValues, b \in VariantValues :
            LET v == Variant(O, ma, mb, a, b)
                target == OperandAddress(O, 3)
            IN  SameAdd(O, v) =>
                    /\ Step(v).panic = ""
                    /\ Cell(Step(v).c.memory, target) = Cell(Step(O).c.memory, target)
                    /\ Cell(Step(O).c.memory, target) = Denoted(O, 1) + Denoted(O, 2)
                    /\ Step(v).c.pc = Step(O).c.pc

\* C20 witness: the add of cell 3 (position, 5) and cell 4 (relative
\* offset 3, 8) has stored 13 in cell 20, and the state it executed in has
\* the same logical add in each of the nine pairs of source modes.
C20_Witness ==
    /\ hist.program = StepPrefix \o <<InstructionWord(1, 0, 2, 0), 3, 3, 20, 99>>
    /\ last.op = "step"
    /\ O.step = 3
    /\ O.pc = StepPc + 4
    /\ Cell(O.memory, 20) = 13
    /\ LET pre == [O EXCEPT !.pc = StepPc, !.memory = hist.program]
       IN  \A ma \in ModeDigits, mb \in ModeDigits :
              \E a \in VariantValues, b \in VariantValues :
                  SameAdd(pre, Variant(pre, ma, mb, a, b))

----------------------------------------------------------------------------
(* Words beyond 32 bits under run_program (SpecHarness).                   *)

\* 1219070632396864 = 34915192 * 34915192, between 2^50 and 2^51
WideProduct == [neg |-> FALSE, limbs |-> <<6864, 3239, 706, 1219>>]
\* 1125899906842624 = 2^50
LargeNumber == [neg |-> FALSE, limbs |-> <<2624, 684, 8999, 1125>>]

\* the output the program loaded is to produce
WideOutput ==
    IF hist.program = WideMultiplyProgram THEN WideProduct ELSE LargeNumber

\* C13: under run_program the program 1102,34915192,34915192,7,4,7,99,0
\* produces exactly 1219070632396864 and the program
\* 104,1125899906842624,99 exactly 1125899906842624: the first run blocks
\* on output with the exact value buffered, the run after it was taken
\* reports Finished, the outputs taken are that one value, and nothing
\* panics; the product stands unchanged in cell 7.
C13_WideValues ==
    (hist.program \in {WideMultiplyProgram, LargeOutputProgram} /\ hist.appended # <<>>)
        => /\ panicked = ""
           /\ last.op = "append_input" => NextRunState = "BlockedOnOutput"
           /\ last.op = "run" =>
                IF hist.taken = <<>>
                THEN last.ret = "BlockedOnOutput" /\ O.output = Some(WideOutput)
                ELSE HarnessReturned
           /\ last.op = "take_output" =>
                /\ hist.taken = <<WideOutput>>
                /\ NextRunState = "Finished"
           /\ HarnessReturned => hist.taken = <<WideOutput>>
           /\ (HarnessReturned /\ hist.program = WideMultiplyProgram) =>
                O.memory[8] = WideProduct

\* C13 witness: run_program("1102,34915192,34915192,7,4,7,99,0", 0)
\* returned the one output 1219070632396864.
C13_Witness ==
    /\ hist.program = WideMultiplyProgram
    /\ hist.appended = <<0>>
    /\ HarnessReturned
    /\ hist.taken = <<WideProduct>>

----------------------------------------------------------------------------
(* Decode faults (SpecStep).                                               *)

\* the opcodes of the instruction set
ValidOpcodes == (1..9) \cup {99}

\* the step just made fetched the cell at a pc from 0 on
Fetches ==
    /\ last'.op = "step"
    /\ O.output = None
    /\ O.pc >= 0

\* the cell at pc
Word == Cell(O.memory, O.pc)

\* the cell at pc is negative or its last two digits are no opcode
InvalidOpcode == Word < 0 \/ (Word % 100) \notin ValidOpcodes

\* the digits of the operands the opcode at pc takes are modes
ModesValid ==
    \A k \in 1..Arity(OpcodeFrom(Word % 100)) : OperandDigit(O, k) \in ModeDigits

\* the step changed nothing but the step counter and executed nothing
OnlyCounted ==
    /\ O' = [O EXCEPT !.step = @ + 1]
    /\ hist' = hist
    /\ last'.n = 0

\* C21: a step that fetches a cell whose value mod 100 is none of 1..9, 99
\* (0, 10..98, multiples of 100) or that is negative panics at decode and
\* executes nothing: pc, memory, relative base and the queues are as
\* before; a cell with a valid opcode and valid mode digits decodes to the
\* opcode of its last two digits.
C21_InvalidOpcode ==
    [][/\ (Fetches /\ InvalidOpcode)
            => /\ panicked' = "parse instruction failed"
               /\ OnlyCounted
       /\ (Fetches /\ ~InvalidOpcode /\ ModesValid)
            => /\ panicked' # "parse instruction failed"
               /\ I.op = OpcodeFrom(Word % 100)
      ]_vars

\* C21 witness: the cell -1101 at pc ended the step in the decode panic,
\* pc still at the cell.
C21_Witness ==
    /\ hist.program = StepPrefix \o <<-1101, 3, 4, 3, 99>>
    /\ panicked = "parse instruction failed"
    /\ O.pc = StepPc
    /\ O.step = 3
    /\ O.memory = hist.program

\* the mode a digit stands for; "" for a digit that is no mode
ModeName(digit) ==
    CASE digit = 0 -> "Position"
      [] digit = 1 -> "Immediate"
      [] digit = 2 -> "RelativePosition"
      [] OTHER -> ""

\* C22: a step that fetches a valid opcode of N operands panics at decode,
\* with nothing loaded, stored or taken from the queue, when the digit of
\* any of the N operands (hundreds place first) is not 0, 1 or 2, also
\* when that operand would not be used; otherwise operand k is decoded
\* with the mode of the k-th digit, and digits beyond the N-th are ignored.
C22_ModeDigits ==
    [][(Fetches /\ ~InvalidOpcode) =>
         IF ModesValid
         THEN /\ panicked' # "parse instruction failed"
              /\ \A k \in 1..Arity(I.op) :
                    Operand(I, k).mode = ModeName(OperandDigit(O, k))
         ELSE /\ panicked' = "parse instruction failed"
              /\ OnlyCounted
      ]_vars

\* C22 witness: jump-if-false on the non-zero cell 3, not to be taken, with
\* the digit 3 for its target, ended in the decode panic.
C22_Witness ==
    /\ hist.program = StepPrefix \o <<InstructionWord(6, 0, 3, 0), 3, 4, 3, 99>>
    /\ panicked = "parse instruction failed"
    /\ O.pc = StepPc
    /\ O.step = 3
    /\ Cell(O.memory, 3) # 0

----------------------------------------------------------------------------
(* Reads and writes beyond the extent (SpecStep).                          *)

\* the extent of the memory before the step
Extent == Len(O.memory)

\* the address of the target operand of the storing instruction at pc
Target == OperandAddress(O, TargetIndex(I.op))

\* the store the step reaches has a target address Memory::set accepts
Stores ==
    /\ ReachesStore
    /\ OperandDigit(O, TargetIndex(I.op)) # 1
    /\ 0 <= Target /\ Target < MemorySetLimit

\* C23: a read at an address from the extent on yields 0 and leaves memory
\* as it was.  A fetch at such a pc reads the word 0, which is no opcode;
\* an operand at pc + k beyond the extent has the raw value 0; a position
\* or relative load of such an address is 0 (an output of it buffers 0);
\* and a step changes the extent only by a store to an address from the
\* extent on.
C23_ReadBeyondExtent ==
    [][Fetches =>
         /\ O.pc >= Extent =>
               /\ panicked' = "parse instruction failed"
               /\ OnlyCounted
         /\ Decodes(O) =>
               \A k \in 1..Arity(I.op) :
                  LET p == Operand(I, k)
                  IN  /\ O.pc + k >= Extent => p.value = 0
                      /\ (OperandDigit(O, k) # 1 /\ OperandAddress(O, k) >= Extent) =>
                            /\ ~LoadPanics(O, p)
                            /\ Load(O, p) = 0
         /\ (Executes("Output") /\ OperandDigit(O, 1) # 1
               /\ OperandAddress(O, 1) >= Extent) =>
               O'.output = Some(0)
         /\ (Stores /\ Target >= Extent)
               \/ O'.memory = O.memory
               \/ (Len(O'.memory) = Extent /\ ReachesStore)
      ]_vars

\* C23 witness: an output whose operand cell lies beyond the extent read
\* the raw value 0 and produced cell 0; memory is the program as loaded.
C23_Witness ==
    /\ hist.program = StepPrefix \o <<4>>
    /\ last.op = "step"
    /\ O.step = 3
    /\ O.output = Some(hist.program[1])
    /\ O.memory = hist.program

\* C24: a store of v at an address a that Memory::set accepts leaves the
\* memory with length a + 1 when a is at or beyond the extent and with the
\* same length otherwise; cell a is v, the cells that existed before are
\* unchanged except cell a, and the new cells below a are 0.
C24_WriteGrowth ==
    [][Stores =>
            LET a == Target
                old == O.memory
                new == O'.memory
            IN  /\ Len(new) = IF a >= Len(old) THEN a + 1 ELSE Len(old)
                /\ new[a + 1] = StoredValue(O, I)
                /\ \A n \in 1..Len(old) : n # a + 1 => new[n] = old[n]
                /\ \A n \in (Len(old) + 1)..a : new[n] = 0
      ]_vars

\* C24 witness: a store at address 20 grew the memory to 21 cells, the
\* last one not 0, the new ones below it 0, the program cells as loaded.
C24_Witness ==
    /\ last.op = "step"
    /\ Len(O.memory) = 21
    /\ O.memory[21] # 0
    /\ Len(hist.program) < 20
    /\ \A n \in (Len(hist.program) + 1)..20 : O.memory[n] = 0
    /\ SubSeq(O.memory, 1, Len(hist.program)) = hist.program

----------------------------------------------------------------------------
(* The range of pc (SpecStep).                                             *)

\* C26: pc is at least 0 in every reachable state, after any sequence of
\* steps including taken jumps.  A taken jump assigns the loaded target to
\* pc unchecked, so a negative target leaves pc negative when the step
\* returns Running; the panic comes with the fetch of the next step.
C26_PcNonNegative == O.pc >= 0

----------------------------------------------------------------------------
(* Construction (SpecHarness).                                             *)

\* C29: a Computer just parsed from a listing of N integers has N memory
\* cells, cell k holding the (k+1)-th integer of the listing, pc 0,
\* relative base 0, no queued input, no buffered output and finished
\* false.
C29_Constructed ==
    last.op = "parse" =>
        /\ Len(O.memory) = Len(hist.program)
        /\ \A k \in 0..(Len(hist.program) - 1) : Cell(O.memory, k) = hist.program[k + 1]
        /\ O.pc = 0
        /\ O.relative_base = 0
        /\ O.input_buffer = <<>>
        /\ O.output = None
        /\ O.finished = FALSE

\* C29 witness: the quine's listing parsed, its first cells 109, 1, 204.
C29_Witness ==
    /\ last.op = "parse"
    /\ hist.program = QuineProgram
    /\ Len(O.memory) = 16
    /\ SubSeq(O.memory, 1, 3) = <<109, 1, 204>>
    /\ O.pc = 0

----------------------------------------------------------------------------
(* One host using every operation of a Computer (SpecHost).                *)

\* two characters, an input, then a value that is no character
AsciiProgram == <<104, 72, 104, 105, 3, 9, 104, 200, 99, 0>>
\* an adjustment of the base by cell 7, a character through the base, a
\* second adjustment
RelativeAsciiProgram == <<9, 7, 204, 7, 109, -2, 99, 1, 72>>
\* a letter, a line feed, then 128, the first value that is no character
LinesProgram == <<104, 72, 104, 10, 104, 128, 99>>
\* the characters 127 and 0, then a negative value
EdgeProgram == <<104, 127, 104, 0, 104, -1, 99>>
\* an output of cell 5
PeekProgram == <<4, 5, 99, 0, 0, 33>>
\* a load at a negative address, position mode
NegativeLoadProgram == <<4, -1, 99>>
\* a load at a negative address, relative mode: base -5, raw value 2
NegativeRelativeLoadProgram == <<109, -5, 204, 2, 99>>
\* a store at a negative address, position mode
NegativeStoreProgram == <<1101, 1, 2, -3, 99>>
\* a store at a negative address, relative mode: base -5, raw value 3
NegativeRelativeStoreProgram == <<109, -5, 21101, 1, 2, 3, 99>>
\* an input stored at a negative address
NegativeInputProgram == <<3, -1, 99>>
\* a jump to a negative address
NegativeJumpProgram == <<1105, 1, -1>>

HostPrograms ==
    {AddProgram, RelativeEchoProgram, AsciiProgram, RelativeAsciiProgram,
     PeekProgram, LinesProgram, EdgeProgram,
     NegativeLoadProgram, NegativeRelativeLoadProgram, NegativeStoreProgram,
     NegativeRelativeStoreProgram, NegativeInputProgram, NegativeJumpProgram}

\* the cells and values the host pokes: an opcode, a source cell, a cell
\* beyond the extent, a negative index; a multiply, a negative address
HostPokeIndexes == {-1, 0, 5, 9}
HostPokeValues == {2, -7}

\* the values the host appends
HostInputs == {<<8>>, <<72, 200>>}

\* the strs the host appends: a letter, a letter and a line feed
HostStrs == {<<"A">>, <<"H", "\n">>}

InitHost == \E program \in HostPrograms : Parsed(program)

HostCounted == nops < MaxHostOps /\ nops' = nops + 1

CountedStep == HostCounted /\ DoStep(Original)
CountedRun == HostCounted /\ DoRun(Original)
CountedReadAsciiString == HostCounted /\ DoReadAsciiString(Original, MaxSteps)
CountedAppendInput ==
    \E numbers \in HostInputs : HostCounted /\ DoAppendInput(Original, numbers)
CountedAppendStr ==
    \E str \in HostStrs : HostCounted /\ DoAppendStr(Original, str)
CountedTakeOutput == HostCounted /\ DoTakeOutput(Original)
CountedPoke ==
    \E index \in HostPokeIndexes, value \in HostPokeValues :
        HostCounted /\ DoPoke(Original, index, value)

NextHost ==
    \/ CountedStep
    \/ CountedRun
    \/ CountedReadAsciiString
    \/ CountedAppendInput
    \/ CountedAppendStr
    \/ CountedTakeOutput
    \/ CountedPoke

SpecHost == InitHost /\ [][NextHost]_vars

----------------------------------------------------------------------------
(* Negative addresses (SpecHost).                                          *)

\* operand k of the instruction at pc addresses a cell below 0
NegativeOperand(k) == OperandDigit(O, k) # 1 /\ OperandAddress(O, k) < 0

\* the jump at pc is taken: its first operand denotes a value that is not
\* 0 (jump-if-true) or 0 (jump-if-false)
Taken ==
    /\ I.op \in {"JumpIfTrue", "JumpIfFalse"}
    /\ Denotes(O, 1)
    /\ (I.op = "JumpIfTrue") = (Denoted(O, 1) # 0)

\* the operands the instruction at pc loads
Sources ==
    CASE I.op \in {"Add", "Multiply", "LessThan", "Equals"} -> {1, 2}
      [] I.op \in {"Output", "AdjustRelativeBase"} -> {1}
      [] I.op \in {"JumpIfTrue", "JumpIfFalse"} -> IF Taken THEN {1, 2} ELSE {1}
      [] OTHER -> {}

\* C25: an access at an address below 0 ends in a panic and has no other
\* effect.  A step whose instruction loads an operand, in position or
\* relative mode, at a negative address panics with the Computer as before
\* but for the step counter; a step whose store is reached with a negative
\* target address panics with memory, pc and the buffered output as
\* before; a step at a negative pc panics at the fetch; a poke at a
\* negative index panics and changes nothing.
C25_NegativeAddress ==
    [][/\ (last'.op = "step" /\ Decodes(O) /\ \E k \in Sources : NegativeOperand(k))
            => /\ panicked' = "invalid index"
               /\ OnlyCounted
       /\ (ReachesStore /\ NegativeOperand(TargetIndex(I.op)))
            => /\ panicked' = "Invalid address"
               /\ O'.memory = O.memory
               /\ O'.pc = O.pc
               /\ O'.output = O.output
               /\ last'.n = 0
       /\ (last'.op = "step" /\ O.output = None /\ O.pc < 0)
            => /\ panicked' = "invalid index"
               /\ OnlyCounted
       /\ (last'.op = "poke" /\ last'.args[1] < 0)
            => /\ panicked' = "invalid index"
               /\ O' = O
               /\ hist' = hist
      ]_vars

\* C25 witness: the store of 1 + 2 through the base -5 at raw value 3, the
\* address -2, has panicked; the memory is the program as loaded.
C25_Witness ==
    /\ hist.program = NegativeRelativeStoreProgram
    /\ last.op = "step"
    /\ O.relative_base = -5
    /\ O.pc = 2
    /\ panicked = "Invalid address"
    /\ O.memory = hist.program

----------------------------------------------------------------------------
(* The relative base (SpecHost).                                           *)

\* C27: the relative base is 0 in a Computer just parsed.  A step that
\* executes an adjust-relative-base instruction adds the value its operand
\* denotes to the base and moves pc on by 2; every other step leaves the
\* base as it was, as do append_input, take_output and poke; a run or a
\* read_ascii_string changes the base by the sum of the values of the
\* adjust-relative-base instructions it executed, and by nothing when it
\* executed none.
C27_RelativeBase ==
    [][/\ last.op = "parse" => O.relative_base = 0
       /\ last'.op \in {"append_input", "take_output", "poke"}
            => O'.relative_base = O.relative_base
       /\ last'.op = "step"
            => IF Executes("AdjustRelativeBase")
               THEN /\ Denotes(O, 1)
                    /\ O'.relative_base = O.relative_base + Denoted(O, 1)
                    /\ O'.pc = O.pc + 2
               ELSE O'.relative_base = O.relative_base
       /\ last'.op \in {"run", "read_ascii_string"}
            => O'.relative_base = O.relative_base + last'.adjusted
      ]_vars

\* C27 witness: read_ascii_string ran the program that adjusts the base by
\* cell 7, which is 1, and then by -2: it returned "H" and the base is -1.
C27_Witness ==
    /\ hist.program = RelativeAsciiProgram
    /\ last.op = "read_ascii_string"
    /\ last.out = Some(<<72>>)
    /\ last.n = 4
    /\ O.relative_base = -1
    /\ O.finished

----------------------------------------------------------------------------
(* poke (SpecHost).                                                        *)

\* the index and the value of the poke just made, or made last
PokedIndex(call) == call.args[1]
PokedValue(call) == call.args[2]

\* the last call was a poke that returned, and a step follows it
StepAfterPoke ==
    /\ last.op = "poke"
    /\ last'.op = "step"
    /\ O.output = None

\* C28: poke(a, v) with a from 0 on sets cell a to v and changes nothing
\* else of the Computer: the cells that existed are as before except cell
\* a, and when a is beyond the extent the memory has a + 1 cells, the new
\* ones below a holding 0.  A poke made on a Computer just parsed leaves
\* it equal to the Computer parsed from the listing with entry a replaced.
\* The step after a poke of cell pc decodes v: it panics at decode when v
\* is no opcode and executes the opcode of v otherwise; a load of cell a
\* by that step yields v, and an output of cell a buffers v.
C28_Poke ==
    [][/\ (last'.op = "poke" /\ PokedIndex(last') >= 0) =>
            LET a == PokedIndex(last')
                v == PokedValue(last')
                old == O.memory
                new == O'.memory
            IN  /\ panicked' = ""
                /\ last'.n = 0
                /\ hist' = hist
                /\ O' = [O EXCEPT !.memory = new]
                /\ Len(new) = IF a >= Len(old) THEN a + 1 ELSE Len(old)
                /\ new[a + 1] = v
                /\ \A n \in 1..Len(old) : n # a + 1 => new[n] = old[n]
                /\ \A n \in (Len(old) + 1)..a : new[n] = 0
                /\ last.op = "parse" =>
                      /\ new = ParseNumbers(MemoryNew, WithCell(hist.program, a, v))
                      /\ O' = [NewComputer(1) EXCEPT !.memory = new]
       /\ (StepAfterPoke /\ O.pc = PokedIndex(last)) =>
            LET v == PokedValue(last)
            IN  IF v < 0 \/ (v % 100) \notin ValidOpcodes
                THEN panicked' = "parse instruction failed"
                ELSE ModesValid =>
                        /\ I.op = OpcodeFrom(v % 100)
                        /\ panicked' = "" => last'.n = 1 \/ last'.ret = "BlockedOnInput"
       /\ (StepAfterPoke /\ Decodes(O)) =>
            \A k \in Sources :
               (OperandDigit(O, k) # 1 /\ OperandAddress(O, k) = PokedIndex(last)) =>
                  /\ Load(O, Operand(I, k)) = PokedValue(last)
                  /\ Executes("Output") => O'.output = Some(PokedValue(last))
      ]_vars

\* C28 witness: the add of cells 5 and 6 patched to a multiply by
\* poke(0, 2) has run to its halt with 11 * 13 in cell 7.
C28_Witness ==
    /\ hist.program = AddProgram
    /\ last.op = "run"
    /\ last.ret = "Finished"
    /\ O.memory[1] = 2
    /\ O.memory[8] = 143
    /\ SubSeq(O.memory, 2, 7) = SubSeq(hist.program, 2, 7)

----------------------------------------------------------------------------
(* The queue operations and poke execute nothing (SpecHost).               *)

\* C30: append_input, take_output and poke execute no instruction: pc,
\* relative base, finished flag and step counter are as before the call
\* and nothing is consumed from the queue or produced.  append_input
\* leaves memory and the buffered output as they were and adds its
\* numbers at the back of the queue; take_output leaves memory and the
\* queue as they were, returns the buffered output and empties the buffer.
C30_HostOperations ==
    [][/\ last'.op \in {"append_input", "take_output", "poke"} =>
            /\ last'.n = 0
            /\ O'.pc = O.pc
            /\ O'.relative_base = O.relative_base
            /\ O'.finished = O.finished
            /\ O'.step = O.step
            /\ hist'.consumed = hist.consumed
            /\ hist'.produced = hist.produced
       /\ last'.op = "append_input" =>
            /\ O'.memory = O.memory
            /\ O'.output = O.output
            /\ \E numbers \in HostInputs :
                  /\ O'.input_buffer = O.input_buffer \o numbers
                  /\ hist'.appended = hist.appended \o numbers
       /\ last'.op = "take_output" =>
            /\ O'.memory = O.memory
            /\ O'.input_buffer = O.input_buffer
            /\ last'.out = O.output
            /\ O'.output = None
      ]_vars

\* C30 witness: read_ascii_string returned "Hi" with the input at pc 4
\* waiting; the append_input that followed queued 8 and pc is still 4,
\* the input not executed.
C30_Witness ==
    /\ hist.program = AsciiProgram
    /\ last.op = "append_input"
    /\ hist.taken = <<72, 105>>
    /\ O.pc = 4
    /\ O.input_buffer = <<8>>
    /\ hist.consumed = <<>>
    /\ O.memory = hist.program

----------------------------------------------------------------------------
(* read_ascii_string (SpecHost).                                           *)

\* the values s holds beyond its first n
Beyond(s, n) == SubSeq(s, n + 1, Len(s))

\* the output values the call just made came upon, in order: the one
\* buffered when it was made, then the ones its instructions produced
Seen == O.output \o Beyond(hist'.produced, Len(hist.produced))

\* the values the call just made took from the buffer
TakenNow == Beyond(hist'.taken, Len(hist.taken))

\* the codes of the 7-bit characters, and the printable ones among them
SevenBit == 0..127
Printable == 32..126

\* a read_ascii_string that returned appended the values of `range` and
\* no other: it took from the buffer, in produced order, the values it
\* came upon up to the first one outside `range`, which it left buffered,
\* and returned them as a string, or None when there were none; with no
\* value left buffered the machine is at an input with an empty queue or
\* at a halt.  A take_output that follows returns the value left.
ReadsAscii(range) ==
    /\ (last'.op = "read_ascii_string" /\ panicked' = "") =>
          /\ IsPrefix(TakenNow, Seen)
          /\ \A k \in 1..Len(TakenNow) : TakenNow[k] \in range
          /\ last'.out = IF TakenNow = <<>> THEN None ELSE Some(TakenNow)
          /\ IF Len(TakenNow) < Len(Seen)
             THEN /\ Len(Seen) = Len(TakenNow) + 1
                  /\ Seen[Len(Seen)] \notin range
                  /\ O'.output = Some(Seen[Len(Seen)])
             ELSE /\ O'.output = None
                  /\ Step(O').ret \in {"BlockedOnInput", "Finished"}
    /\ (last.op = "read_ascii_string" /\ O.output # None /\ last'.op = "take_output") =>
          /\ last'.out = O.output
          /\ O.output[1] \notin range

\* C31, as stated: the values appended are those of the printable range.
\* A line feed, 10, is appended and consumed all the same.
C31_PrintableOnly == [][ReadsAscii(Printable)]_vars

\* C31: read_ascii_string appends exactly the output values in 0..127,
\* control characters among them, taking each from the buffer in produced
\* order; it stops at Finished, at BlockedOnInput or at the first output
\* value outside 0..127, which stays buffered for a following take_output;
\* it returns None when it appended nothing.
C31_ReadsSevenBit == [][ReadsAscii(SevenBit)]_vars

\* C31 witness: read_ascii_string returned the letter and the line feed
\* and left 128 buffered.
C31_Witness ==
    /\ hist.program = LinesProgram
    /\ last.op = "read_ascii_string"
    /\ last.out = Some(<<72, 10>>)
    /\ hist.taken = <<72, 10>>
    /\ hist.produced = <<72, 10, 128>>
    /\ O.output = Some(128)

----------------------------------------------------------------------------
(* i64 arithmetic at the word boundaries (SpecOverflow).                   *)
(* A Word is written as its eight bytes in two's complement, the lowest    *)
(* first; an exact sum or product takes sixteen.                           *)

ByteBase == 256
WordBytes == 8
ExactBytes == 16

\* the k lowest bytes of the integer n in two's complement
RECURSIVE BytesOf(_, _)
BytesOf(n, k) ==
    IF k = 0 THEN <<>>
    ELSE <<n % ByteBase>> \o BytesOf((n - (n % ByteBase)) \div ByteBase, k - 1)

\* the i64 of an integer
I64(n) == BytesOf(n, WordBytes)

\* w widened to k bytes with its sign
SignExtend(w, k) ==
    w \o [j \in 1..(k - Len(w)) |-> IF w[Len(w)] >= ByteBase \div 2 THEN ByteBase - 1 ELSE 0]

\* x + y + carry on Len(x) bytes
RECURSIVE BytesPlus(_, _, _)
BytesPlus(x, y, carry) ==
    IF x = <<>> THEN <<>>
    ELSE LET t == Head(x) + Head(y) + carry
         IN  <<t % ByteBase>> \o BytesPlus(Tail(x), Tail(y), t \div ByteBase)

\* x * d + carry on Len(x) bytes, d below the base
RECURSIVE BytesTimes(_, _, _)
BytesTimes(x, d, carry) ==
    IF x = <<>> THEN <<>>
    ELSE LET t == Head(x) * d + carry
         IN  <<t % ByteBase>> \o BytesTimes(Tail(x), d, t \div ByteBase)

\* x * y on Len(x) bytes
RECURSIVE BytesProduct(_, _)
BytesProduct(x, y) ==
    IF y = <<>> THEN [j \in 1..Len(x) |-> 0]
    ELSE BytesPlus(BytesTimes(x, Head(y), 0),
                   <<0>> \o SubSeq(BytesProduct(x, Tail(y)), 1, Len(x) - 1), 0)

\* -x on Len(x) bytes
BytesNegated(x) ==
    BytesPlus([j \in 1..Len(x) |-> ByteBase - 1 - x[j]], [j \in 1..Len(x) |-> 0], 1)

\* the magnitude x followed by the decimal digits
RECURSIVE DigitsBytes(_, _)
DigitsBytes(x, digits) ==
    IF digits = <<>> THEN x
    ELSE DigitsBytes(BytesTimes(x, 10, Head(digits)), Tail(digits))

\* str::parse::<i64> of a decimal numeral within i64
ParseI64(neg, digits) ==
    LET m == DigitsBytes(I64(0), digits)
    IN  IF neg THEN BytesNegated(m) ELSE m

\* the exact sum and product of two i64
ExactSum(a, b) == BytesPlus(SignExtend(a, ExactBytes), SignExtend(b, ExactBytes), 0)
ExactProduct(a, b) == BytesProduct(SignExtend(a, ExactBytes), SignExtend(b, ExactBytes))

\* the exact value e is within i64
FitsI64(e) == SignExtend(SubSeq(e, 1, WordBytes), ExactBytes) = e

\* the result of + or * on i64 with the exact value e: an overflow panics
\* in a build with overflow checks and wraps in a build without them
Overflowing(e, checks, message) ==
    IF ~FitsI64(e) /\ checks THEN [panic |-> message, value |-> I64(0)]
    ELSE [panic |-> "", value |-> SubSeq(e, 1, WordBytes)]

I64Add(a, b, checks) == Overflowing(ExactSum(a, b), checks, "attempt to add with overflow")
I64Mul(a, b, checks) == Overflowing(ExactProduct(a, b), checks, "attempt to multiply with overflow")

\* intcode.rs 374-383 on i64: Add and Multiply in a build with or without
\* overflow checks
ExecArithI64(c, op, i, checks) ==
    IF LoadPanics(c, i.a) \/ LoadPanics(c, i.b) THEN Panicked(c, "invalid index")
    ELSE LET r == IF op = "Add" THEN I64Add(Load(c, i.a), Load(c, i.b), checks)
                  ELSE I64Mul(Load(c, i.a), Load(c, i.b), checks)
         IN  IF r.panic # "" THEN Panicked(c, r.panic)
             ELSE IF StorePanic(c, i.c) # "" THEN Panicked(c, StorePanic(c, i.c))
             ELSE Returned([Store(c, i.c, r.value) EXCEPT !.pc = @ + 4],
                           "Running", op, r.value)

\* intcode.rs 427-439 on i64: relative_base += value
ExecAdjustRelativeBaseI64(c, i, checks) ==
    IF LoadPanics(c, i.a) THEN Panicked(c, "invalid index")
    ELSE LET r == I64Add(c.relative_base, Load(c, i.a), checks)
         IN  IF r.panic # "" THEN Panicked(c, r.panic)
             ELSE Returned([c EXCEPT !.relative_base = r.value, !.pc = @ + 2],
                           "Running", "AdjustRelativeBase", Load(c, i.a))

\* Computer::step of a Computer whose data words and relative base are
\* written as i64 bytes: the arithmetic is that of i64, the rest is Step
StepI64(c, checks) ==
    LET counted == [c EXCEPT !.step = @ + 1]
        i == ParseInstruction(c.pc, c.memory)
    IN  IF c.output # None \/ counted.step > StepCeiling \/ MemoryGetPanics(c.pc) THEN Step(c)
        ELSE IF i.err THEN Step(c)
        ELSE IF i.op \in {"Add", "Multiply"} THEN ExecArithI64(counted, i.op, i, checks)
        ELSE IF i.op = "AdjustRelativeBase" THEN ExecAdjustRelativeBaseI64(counted, i, checks)
        ELSE Step(c)

\* decimal numerals at and about the boundaries of i64
NumeralMax == <<9, 2, 2, 3, 3, 7, 2, 0, 3, 6, 8, 5, 4, 7, 7, 5, 8, 0, 7>>
NumeralMin == <<9, 2, 2, 3, 3, 7, 2, 0, 3, 6, 8, 5, 4, 7, 7, 5, 8, 0, 8>>
NumeralTwoTo62 == <<4, 6, 1, 1, 6, 8, 6, 0, 1, 8, 4, 2, 7, 3, 8, 7, 9, 0, 4>>
NumeralTwoTo32 == <<4, 2, 9, 4, 9, 6, 7, 2, 9, 6>>
\* the least integer whose square is beyond i64, and the one below it
NumeralRoot == <<3, 0, 3, 7, 0, 0, 0, 5, 0, 0>>
NumeralRootBelow == <<3, 0, 3, 7, 0, 0, 0, 4, 9, 9>>

I64Max == ParseI64(FALSE, NumeralMax)
I64Min == ParseI64(TRUE, NumeralMin)

\* the operands of the arithmetic
BoundaryWords ==
    {I64(n) : n \in {-3, -2, -1, 0, 1, 2, 3}}
    \cup {I64Max, I64Min}
    \cup {ParseI64(neg, d) : neg \in BOOLEAN,
            d \in {NumeralTwoTo62, NumeralTwoTo32, NumeralRoot, NumeralRootBelow}}

\* an add or a multiply of two immediates into cell 0, or two adjustments
\* of the relative base, then a halt
OverflowPrograms ==
    {<<w, a, b, 0, 99>> : w \in {1101, 1102}, a \in BoundaryWords, b \in BoundaryWords}
    \cup {<<109, a, 109, b, 99>> : a \in BoundaryWords, b \in BoundaryWords}

\* Computer::parse of a program, in a build with or without overflow checks
InitOverflow ==
    \E program \in OverflowPrograms, checks \in BOOLEAN :
        /\ heap = (1 :> ParseNumbers(MemoryNew, program))
        /\ computers = (Original :> [NewComputer(1) EXCEPT !.relative_base = I64(0)])
        /\ panicked = ""
        /\ last = Call("parse", Original, "", None, 0)
        /\ hist = [appended |-> <<>>, consumed |-> <<>>, produced |-> <<>>, taken |-> <<>>,
                   output_pc |-> -1, program |-> program, overflow_checks |-> checks]
        /\ npokes = 0
        /\ nops = 0
        /\ graph = <<>>
        /\ network = <<>>

\* the host's step
StepOverflow ==
    /\ panicked = ""
    /\ O.step < MaxSteps
    /\ LET r == StepI64(O, hist.overflow_checks)
       IN  /\ Commit(Original, r.c)
           /\ panicked' = r.panic
           /\ UNCHANGED others
           /\ last' = Call("step", Original, r.ret, None, IF r.op = "" THEN 0 ELSE 1)
    /\ UNCHANGED <<hist, npokes, nops>>

NextOverflow == StepOverflow

SpecOverflow == InitOverflow /\ [][NextOverflow]_vars

\* the exact result of the add or multiply at pc, and of the adjustment
ExactResult ==
    CASE I.op = "Add" -> ExactSum(I.a.value, I.b.value)
      [] I.op = "Multiply" -> ExactProduct(I.a.value, I.b.value)
      [] OTHER -> ExactSum(O.relative_base, I.a.value)

\* C32: a step whose add, multiply or adjustment of the relative base has
\* an exact result outside i64 panics, with memory and relative base as
\* they were: no wrapped value is stored.  Without overflow checks the
\* build stores the low 64 bits.
C32_OverflowFaults ==
    [][(last'.op = "step" /\ Decodes(O)
          /\ I.op \in {"Add", "Multiply", "AdjustRelativeBase"}
          /\ ~FitsI64(ExactResult))
        => /\ panicked' # ""
           /\ O'.memory = O.memory
           /\ O'.relative_base = O.relative_base
      ]_vars

----------------------------------------------------------------------------
(* run as a loop of steps (SpecRun).                                       *)

\* a jump to itself, and a loop of two jumps
LoopProgram == <<1105, 1, 0>>
TwoLoopProgram == <<1106, 0, 3, 1105, 1, 0>>
LoopPrograms == {LoopProgram, TwoLoopProgram}

\* the pc of a loop program after n steps
LoopPc(program, n) == IF program = TwoLoopProgram /\ n % 2 = 1 THEN 3 ELSE 0

\* the Computer parsed from a loop program after n steps: the jumps change
\* nothing but pc and the step counter
Looped(program, n) == [NewComputer(1) EXCEPT !.pc = LoopPc(program, n), !.step = n]

\* the programs run from their construction
RunPrograms == {EchoProgram, AddProgram, TwoOutputsProgram, EchoLoopProgram}

\* the step counts within MaxRunSteps of the ceiling
NearCeiling == (StepCeiling - MaxRunSteps + 2)..StepCeiling

\* a program just parsed, or a loop program after a number of steps near
\* the ceiling
InitRun ==
    \/ \E program \in RunPrograms : Parsed(program)
    \/ \E program \in LoopPrograms, n \in NearCeiling :
          /\ heap = (1 :> ParseNumbers(MemoryNew, program))
          /\ computers = (Original :> Looped(program, n))
          /\ panicked = ""
          /\ last = Call("step", Original, "Running", None, 1)
          /\ hist = [appended |-> <<>>, consumed |-> <<>>, produced |-> <<>>,
                     taken |-> <<>>, output_pc |-> -1, program |-> program]
          /\ npokes = 0
          /\ nops = 0
          /\ graph = <<>>
          /\ network = <<>>

\* the host calls run: the loop of intcode.rs 303-312 is entered
RunEnter ==
    /\ panicked = ""
    /\ last.op # "running"
    /\ O.step < MaxRunSteps \/ O.step \in NearCeiling
    /\ UNCHANGED others
    /\ last' = Call("running", Original, "", None, 0)
    /\ nops' = 0
    /\ UNCHANGED <<computers, heap, panicked, hist, npokes>>

\* one iteration of the loop: a step, and the return unless it was Running
RunIterate ==
    /\ panicked = ""
    /\ last.op = "running"
    /\ nops < MaxRunSteps
    /\ nops' = nops + 1
    /\ LET r == Step(O)
           trace == IF r.op = "" THEN <<>>
                    ELSE <<[op |-> r.op, val |-> r.val, pc |-> O.pc]>>
       IN  /\ Commit(Original, r.c)
           /\ panicked' = r.panic
           /\ hist' = Executed(Original, trace)
           /\ UNCHANGED others
           /\ last' = IF r.panic = "" /\ RunStateOf(r.ret) = "Running"
                      THEN [last EXCEPT !.n = @ + Len(trace)]
                      ELSE Call("run", Original, RunStateOf(r.ret), None, last.n + Len(trace))
    /\ UNCHANGED npokes

RunAppendInput ==
    /\ last.op # "running"
    /\ \E v \in InputValues : DoAppendInput(Original, <<v>>)
    /\ UNCHANGED nops

RunTakeOutput ==
    /\ last.op # "running"
    /\ O.output # None
    /\ DoTakeOutput(Original)
    /\ UNCHANGED nops

NextRun ==
    \/ RunEnter
    \/ RunIterate
    \/ RunAppendInput
    \/ RunTakeOutput

\* an iteration of the loop is made: the steps of RunIterate are those
\* that count an iteration while run is in its loop
RunProceeds ==
    /\ panicked = ""
    /\ last.op = "running"
    /\ nops < MaxRunSteps
    /\ nops' = nops + 1

\* the loop of run goes on while it is in it
SpecRun == InitRun /\ [][NextRun]_vars /\ WF_nops(RunProceeds)

\* the call of run has returned a RunState
RunReturned ==
    /\ last.op = "run"
    /\ panicked = ""
    /\ last.ret \in {"BlockedOnInput", "BlockedOnOutput", "Finished"}

\* C33: every call of run ends: it returns BlockedOnInput, BlockedOnOutput
\* or Finished, or it panics; a loop without input or output ends in the
\* panic of the step that takes the counter over the ceiling.  While a
\* loop program runs it is the program as parsed but for pc, the counter,
\* which is at most the ceiling, and the input the host has queued.
C33_RunTerminates ==
    /\ (last.op = "running") ~> (RunReturned \/ panicked # "")
    /\ [](last.op = "running" /\ hist.program \in LoopPrograms =>
             /\ O = [Looped(hist.program, O.step) EXCEPT !.memory = hist.program,
                                                         !.input_buffer = hist.appended]
             /\ O.step <= StepCeiling)

\* C33 witness: the run of the jump to itself has ended in the panic of
\* the step that counted one over the ceiling.
C33_Witness ==
    /\ hist.program = LoopProgram
    /\ last.op = "run"
    /\ panicked = "Too many steps"
    /\ O.step = StepCeiling + 1
    /\ O.pc = 0

-----------------------------------------------------------------------------
(* graph.rs: a Graph keeps its nodes and its edges in two vectors; a node  *)
(* holds the id of its most recent outgoing edge and an edge the id of the  *)
(* outgoing edge added before it at the same source.  A NodeId or EdgeId is *)
(* the position in its vector counted from one, which is the index of a     *)
(* sequence here.                                                           *)

\* Graph::new
GraphNew == [nodes |-> <<>>, edges |-> <<>>]

\* Graph::add_node: the graph after the call, and the NodeId returned
AddNode(g, data) ==
    LET nodes == Append(g.nodes, [data |-> data, first_outgoing_edge |-> None])
    IN  [graph |-> [g EXCEPT !.nodes = nodes], id |-> Len(nodes)]

\* mutant of AddEdge: the new edge is not linked to the edges before it
AddEdgeUnlinked(g, source, target, data) ==
    LET edges == Append(g.edges, [data |-> data, target |-> target,
                                  next_outgoing_edge |-> None])
    IN  [graph |-> [nodes |-> [g.nodes EXCEPT ![source].first_outgoing_edge =
                                                  Some(Len(edges))],
                    edges |-> edges],
         id |-> Len(edges)]

\* Graph::add_edge, for a source the graph has: the new edge goes in front
\* of the source's list of outgoing edges
AddEdge(g, source, target, data) ==
    LET node_data == g.nodes[source]
        edges == Append(g.edges, [data |-> data, target |-> target,
                                  next_outgoing_edge |-> node_data.first_outgoing_edge])
    IN  [graph |-> [nodes |-> [g.nodes EXCEPT ![source].first_outgoing_edge =
                                                  Some(Len(edges))],
                    edges |-> edges],
         id |-> Len(edges)]

\* Successors::next: the item yielded and the iterator's next position
SuccessorsNext(g, current_edge_id) ==
    IF current_edge_id = None
    THEN [item |-> None, current_edge_id |-> None]
    ELSE LET edge == g.edges[current_edge_id[1]]
         IN  [item |-> Some(<<edge.data, edge.target>>),
              current_edge_id |-> edge.next_outgoing_edge]

\* the items an iterator at `current_edge_id` yields until it returns None
RECURSIVE Collected(_, _)
Collected(g, current_edge_id) ==
    LET n == SuccessorsNext(g, current_edge_id)
    IN  IF n.item = None THEN <<>>
        ELSE <<n.item[1]>> \o Collected(g, n.current_edge_id)

\* Graph::successors(source), iterated to its end
Successors(g, source) == Collected(g, g.nodes[source].first_outgoing_edge)

\* indexing a vector past its end
IndexPanics(vec, index) == index > Len(vec)

MaxGraphCalls == 5

\* the ids the host passes, one more than the graph gets nodes
NodeIds == 1..3
EdgeDatas == {10, 11}

\* the add_node and add_edge calls made so far
GraphCalls == Len(graph.nodes) + Len(graph.edges)

\* the variables of the interpreter, which graph.rs does not touch
NoComputer ==
    /\ computers = <<>>
    /\ heap = <<>>
    /\ npokes = 0
    /\ nops = 0
    /\ network = <<>>

InitGraph ==
    /\ NoComputer
    /\ graph = GraphNew
    /\ panicked = ""
    /\ last = [op |-> "new", args |-> <<>>, out |-> None]
    /\ hist = <<>>

\* hist is the sequence of the add_edge calls that returned
GraphAddNode ==
    /\ panicked = ""
    /\ GraphCalls < MaxGraphCalls
    /\ Len(graph.nodes) < Cardinality(NodeIds) - 1
    /\ LET r == AddNode(graph, "node")
       IN  /\ graph' = r.graph
           /\ last' = [op |-> "add_node", args |-> <<"node">>, out |-> Some(r.id)]
    /\ UNCHANGED <<computers, heap, panicked, hist, npokes, nops, network>>

GraphAddEdge ==
    /\ panicked = ""
    /\ GraphCalls < MaxGraphCalls
    /\ \E source \in NodeIds, target \in NodeIds, data \in EdgeDatas :
          IF IndexPanics(graph.nodes, source)
          THEN /\ panicked' = "index out of bounds"
               /\ last' = [op |-> "add_edge", args |-> <<source, target, data>>,
                           out |-> None]
               /\ UNCHANGED <<graph, hist>>
          ELSE LET r == AddEdge(graph, source, target, data)
               IN  /\ graph' = r.graph
                   /\ hist' = Append(hist, [source |-> source, target |-> target,
                                            data |-> data])
                   /\ last' = [op |-> "add_edge", args |-> <<source, target, data>>,
                               out |-> Some(r.id)]
                   /\ UNCHANGED panicked
    /\ UNCHANGED <<computers, heap, npokes, nops, network>>

\* the host iterates successors(source) to its end
GraphSuccessors ==
    /\ panicked = ""
    /\ last.op # "successors"
    /\ \E source \in NodeIds :
          IF IndexPanics(graph.nodes, source)
          THEN /\ panicked' = "index out of bounds"
               /\ last' = [op |-> "successors", args |-> <<source>>, out |-> None]
          ELSE /\ last' = [op |-> "successors", args |-> <<source>>,
                           out |-> Some(Successors(graph, source))]
               /\ UNCHANGED panicked
    /\ UNCHANGED <<computers, heap, hist, npokes, nops, network, graph>>

NextGraph == GraphAddNode \/ GraphAddEdge \/ GraphSuccessors

SpecGraph == InitGraph /\ [][NextGraph]_vars

\* a sequence back to front
RECURSIVE Reversed(_)
Reversed(s) == IF s = <<>> THEN <<>> ELSE Append(Reversed(Tail(s)), Head(s))

\* the (edge data, target) pairs of the add_edge calls with `source`, in the
\* order of the calls
AddedAt(source) ==
    LET calls == SelectSeq(hist, LAMBDA c : c.source = source)
    IN  [k \in 1..Len(calls) |-> <<calls[k].data, calls[k].target>>]

\* C34: Graph::successors(source) yields the (edge data, target) pairs of
\* the add_edge calls with that source, each once, the most recent first,
\* and nothing else, after any sequence of add_node and add_edge calls
C34_Successors ==
    /\ \A source \in 1..Len(graph.nodes) :
          Successors(graph, source) = Reversed(AddedAt(source))
    /\ last.op = "successors" /\ panicked = "" =>
          last.out = Some(Reversed(AddedAt(last.args[1])))

\* node 1 got two edges with an edge of node 2 between them
C34_Witness ==
    /\ hist = << [source |-> 1, target |-> 2, data |-> 10],
                 [source |-> 2, target |-> 1, data |-> 11],
                 [source |-> 1, target |-> 1, data |-> 11] >>
    /\ last.op = "successors"
    /\ last.out = Some(<< <<11, 1>>, <<10, 2>> >>)

-----------------------------------------------------------------------------
(* A host that polls a Computer blocked on input (SpecPoll).  A step with   *)
(* no input queued changes nothing but the step counter, so the Computer    *)
(* after n such steps is the Computer as parsed with the counter at n.      *)

\* an input, then the halt
InputHaltProgram == <<3, 0, 99>>

PollPrograms == {EchoProgram, InputHaltProgram}

\* the Computer parsed from a program that starts with an input, after n
\* steps with nothing queued
Polled(n) == [NewComputer(1) EXCEPT !.step = n]

\* the cells the polling host pokes: the halt of either program
PollPokeIndexes == {2, 4}
PollPokeValues == {104}

\* hist.halted counts the calls of step and run that returned Finished
\* since the construction or the last poke
InitPoll ==
    \E program \in PollPrograms, n \in {0} \cup NearCeiling :
        /\ heap = (1 :> ParseNumbers(MemoryNew, program))
        /\ computers = (Original :> Polled(n))
        /\ panicked = ""
        /\ last = IF n = 0 THEN Call("parse", Original, "", None, 0)
                  ELSE Call("step", Original, "BlockedOnInput", None, 0)
        /\ hist = [appended |-> <<>>, consumed |-> <<>>, produced |-> <<>>,
                   taken |-> <<>>, output_pc |-> -1, program |-> program,
                   halted |-> 0]
        /\ npokes = 0
        /\ nops = 0
        /\ graph = <<>>
        /\ network = <<>>

\* hist.halted after a call of step or run that returned `ret`
HaltedAfter(ret, panic) ==
    IF panic = "" /\ ret = "Finished" THEN hist.halted + 1 ELSE 0

PollStep ==
    /\ HostCounted
    /\ panicked = ""
    /\ LET r == Step(O)
           trace == IF r.op = "" THEN <<>>
                    ELSE <<[op |-> r.op, val |-> r.val, pc |-> O.pc]>>
       IN  /\ Commit(Original, r.c)
           /\ panicked' = r.panic
           /\ UNCHANGED others
           /\ last' = Ran("step", Original, r.ret, None, trace)
           /\ hist' = [Executed(Original, trace) EXCEPT
                          !.halted = HaltedAfter(r.ret, r.panic)]
    /\ UNCHANGED npokes

PollRun ==
    /\ HostCounted
    /\ panicked = ""
    /\ LET r == RunLoop(O, <<>>, StepCeiling + 2)
       IN  /\ Commit(Original, r.c)
           /\ panicked' = r.panic
           /\ UNCHANGED others
           /\ last' = Ran("run", Original, r.ret, None, r.trace)
           /\ hist' = [Executed(Original, r.trace) EXCEPT
                          !.halted = HaltedAfter(r.ret, r.panic)]
    /\ UNCHANGED npokes

PollAppendInput ==
    \E v \in InputValues : HostCounted /\ DoAppendInput(Original, <<v>>)

PollTakeOutput == HostCounted /\ DoTakeOutput(Original)

PollPoke ==
    /\ HostCounted
    /\ panicked = ""
    /\ npokes < MaxPokes
    /\ npokes' = npokes + 1
    /\ \E index \in PollPokeIndexes, value \in PollPokeValues :
          /\ Commit(Original, Poke(O, index, value))
          /\ UNCHANGED others
          /\ last' = [Call("poke", Original, "", None, 0) EXCEPT !.args = <<index, value>>]
    /\ hist' = [hist EXCEPT !.halted = 0]
    /\ UNCHANGED panicked

NextPoll ==
    \/ PollStep
    \/ PollRun
    \/ PollAppendInput
    \/ PollTakeOutput
    \/ PollPoke

\* the last call found the Computer blocked on input
Blocked ==
    /\ panicked = ""
    /\ last.op \in {"step", "run"}
    /\ last.ret = "BlockedOnInput"

\* the host polls the blocked Computer again: the call counts a step
PollProceeds ==
    /\ Blocked
    /\ nops < MaxHostOps
    /\ computers' = [computers EXCEPT ![Original].step = @ + 1]

\* the host that finds the Computer blocked goes on calling it
SpecPoll == InitPoll /\ [][NextPoll]_vars /\ WF_computers(PollProceeds)

\* the call is a step or a run of a Computer that returned Finished and was
\* not poked since
Restepped == hist.halted > 0 /\ last'.op \in {"step", "run"}

\* the Computer is as before the call but for the step counter
OnlyStepCounted == O' = [O EXCEPT !.step = O'.step]

\* step returns the same, and leaves the same Computer, whatever the
\* finished flag is; it writes the flag at a halt and nowhere else
FlagUnread ==
    LET r == Step(O)
        f == Step([O EXCEPT !.finished = ~@])
    IN  /\ f.ret = r.ret
        /\ f.panic = r.panic
        /\ [f.c EXCEPT !.finished = r.c.finished] = r.c
        /\ r.c.finished = (O.finished \/ r.ret = "Finished")
        /\ f.c.finished = (~O.finished \/ r.ret = "Finished")

\* C35 as stated: a step or run of a Computer that returned Finished, with
\* no poke since, returns Finished again without a panic, having decoded
\* the halt at the same pc, and leaves pc, memory, relative base, the input
\* queue and the buffered output as they were; step does not read the
\* finished flag
C35_FinishedAgain ==
    [][/\ Restepped =>
            /\ panicked' = ""
            /\ last'.ret = "Finished"
            /\ last'.n = 1
            /\ OnlyStepCounted
            /\ O'.step = O.step + 1
       /\ FlagUnread
      ]_vars

\* C35 amended: the same, unless the call takes the step counter over the
\* ceiling: then it panics with "Too many steps", the Computer as before
\* but for the counter
C35_FinishedAgainBelowCeiling ==
    [][/\ Restepped =>
            /\ OnlyStepCounted
            /\ O'.step = O.step + 1
            /\ IF O.step >= StepCeiling
               THEN panicked' = "Too many steps" /\ last'.n = 0
               ELSE /\ panicked' = ""
                    /\ last'.ret = "Finished"
                    /\ last'.n = 1
       /\ FlagUnread
      ]_vars

\* C35 witness: a step returned Finished for the second time, with input
\* queued after the first
C35_Witness ==
    /\ panicked = ""
    /\ hist.halted = 2
    /\ last.op = "step"
    /\ last.ret = "Finished"
    /\ O.finished
    /\ O.input_buffer # <<>>
    /\ O.memory[O.pc + 1] = 99

\* C36: a step with an output buffered returns BlockedOnOutput and leaves
\* the step counter; every other step adds one to it, whether it executes
\* an instruction, blocks on input, finds the halt again or panics, and it
\* panics with "Too many steps" exactly when the counter goes over the
\* ceiling.  A host that goes on polling a Computer blocked on input, with
\* calls left to take the counter over the ceiling, gets that panic unless
\* it does something else.
C36_StepCounter ==
    /\ [][last'.op = "step" =>
             IF O.output # None
             THEN /\ O'.step = O.step
                  /\ last'.ret = "BlockedOnOutput"
                  /\ panicked' = ""
             ELSE /\ O'.step = O.step + 1
                  /\ (panicked' = "Too many steps") = (O.step + 1 > StepCeiling)
        ]_vars
    /\ (Blocked /\ O.step + (MaxHostOps - nops) > StepCeiling)
          ~> (panicked = "Too many steps" \/ ~Blocked)

\* C36 witness: the third poll of a Computer blocked on input, never given
\* input, took the counter over the ceiling
C36_Witness ==
    /\ panicked = "Too many steps"
    /\ last.op = "step"
    /\ nops = 3
    /\ npokes = 0
    /\ hist.appended = <<>>
    /\ O.step = StepCeiling + 1
    /\ O.pc = 0

-----------------------------------------------------------------------------
(* The limits of Memory::set and store_to_address (SpecLimit).             *)

\* the last address Memory::set accepts, the first it refuses, the last
\* store_to_address accepts, the first it refuses
LimitAddresses ==
    {MemorySetLimit - 1, MemorySetLimit, StoreAddressLimit, StoreAddressLimit + 1}

\* output the cell at a, then store 3 there
LimitProgram(a) == <<4, a, 1101, 1, 2, a, 99>>
\* the same through the relative base
RelativeLimitProgram(a) == <<109, a - 5, 204, 5, 21101, 1, 2, 5, 99>>

LimitPrograms ==
    UNION {{LimitProgram(a), RelativeLimitProgram(a)} : a \in LimitAddresses}

LimitPokeValues == {7}

InitLimit == \E program \in LimitPrograms : Parsed(program)

MaxLimitOps == 4

LimitCounted == nops < MaxLimitOps /\ nops' = nops + 1

LimitStep == LimitCounted /\ DoStep(Original)
LimitRun == LimitCounted /\ DoRun(Original)
LimitTakeOutput == LimitCounted /\ DoTakeOutput(Original)
LimitPoke ==
    \E index \in LimitAddresses, value \in LimitPokeValues :
        LimitCounted /\ DoPoke(Original, index, value)

NextLimit ==
    \/ LimitStep
    \/ LimitRun
    \/ LimitTakeOutput
    \/ LimitPoke

SpecLimit == InitLimit /\ [][NextLimit]_vars

\* the step decodes an output of a cell at or above Memory::set's limit
LoadsAbove ==
    /\ last'.op = "step"
    /\ Decodes(O)
    /\ I.op = "Output"
    /\ OperandDigit(O, 1) # 1
    /\ OperandAddress(O, 1) >= MemorySetLimit

\* C37: a store whose target is not immediate, and a poke, succeed exactly
\* at the addresses 0..99,999, where they write the cell; at an address of
\* 100,000 or more they panic and leave memory as it was, while an output
\* of the cell at such an address buffers 0 without a panic.  The check of
\* store_to_address decides the message of the panic (from 131,073 on, and
\* below 0) and never whether there is one.  Memory never has more than
\* 100,000 cells.
C37_StoreLimit ==
    [][/\ (ReachesStore /\ OperandDigit(O, TargetIndex(I.op)) # 1) =>
            /\ (panicked' = "") = (0 <= Target /\ Target < MemorySetLimit)
            /\ (panicked' = "") = ~MemorySetPanics(Target)
            /\ panicked' = "" =>
                  /\ Len(O'.memory) >= Target + 1
                  /\ O'.memory[Target + 1] = StoredValue(O, I)
            /\ panicked' # "" =>
                  /\ O'.memory = O.memory
                  /\ panicked' = IF Target < 0 \/ Target > StoreAddressLimit
                                 THEN "Invalid address" ELSE "invalid index"
       /\ last'.op = "poke" =>
            /\ (panicked' = "") =
                  (0 <= last'.args[1] /\ last'.args[1] < MemorySetLimit)
            /\ panicked' = "" => O'.memory[last'.args[1] + 1] = last'.args[2]
            /\ panicked' # "" => O'.memory = O.memory /\ panicked' = "invalid index"
       /\ LoadsAbove =>
            /\ panicked' = ""
            /\ O'.output = Some(0)
            /\ O'.memory = O.memory
       /\ Len(O'.memory) <= MemorySetLimit
      ]_vars

\* C37 witness: a poke at 99,999 grew memory to its 100,000 cells, the
\* output of the cell at 100,000 was 0, and the store to that cell
\* panicked in Memory::set
C37_Witness ==
    /\ hist.program = LimitProgram(MemorySetLimit)
    /\ Len(O.memory) = MemorySetLimit
    /\ O.memory[MemorySetLimit] = 7
    /\ hist.produced = <<0>>
    /\ last.op = "step"
    /\ panicked = "invalid index"
    /\ O.pc = 2

-----------------------------------------------------------------------------
(* Determinism (SpecTwin).  The host of bin/23.rs clones one parsed        *)
(* Computer into its nodes and calls them in turn.  Here the host clones   *)
(* the original at some point and then calls original, clone and a third   *)
(* instance in any order, making on original and clone the same calls;     *)
(* hist.log is the sequence of the calls made since the clone was made,    *)
(* with what they returned.                                                *)

Other == "other"

\* what a call returns and leaves: the Computer, the state returned, the
\* Option returned, the panic
Outcome(c, ret, out, panic) == [c |-> c, ret |-> ret, out |-> out, panic |-> panic]

\* the host operations on the Computer c
StepOutcome(c) == LET r == Step(c) IN Outcome(r.c, r.ret, None, r.panic)
RunOutcome(c) == LET r == Run(c) IN Outcome(r.c, r.ret, None, r.panic)
AppendInputOutcome(c, numbers) == Outcome(AppendInput(c, numbers), "", None, "")
TakeOutputOutcome(c) == LET r == TakeOutput(c) IN Outcome(r.c, "", r.out, "")
PokeOutcome(c, index, value) ==
    IF MemorySetPanics(index) THEN Outcome(c, "", None, "invalid index")
    ELSE Outcome(Poke(c, index, value), "", None, "")

\* the arguments the host passes
TwinInputs == {<<5>>, <<8>>}
TwinPokes == {<<0, 104>>}

InitTwin ==
    \E program \in ClonedPrograms :
        /\ heap = CloneMemory(1 :> ParseNumbers(MemoryNew, program), 1, 3)
        /\ computers = (Original :> NewComputer(1))
                          @@ (Other :> CloneComputer(NewComputer(1), 3))
        /\ panicked = ""
        /\ last = Call("clone", Other, "", None, 0)
        /\ hist = [program |-> program, log |-> <<>>]
        /\ npokes = 0
        /\ nops = 0
        /\ graph = <<>>
        /\ network = <<>>

MaxTwinOps == 5

TwinCounted == nops < MaxTwinOps /\ nops' = nops + 1

\* the host clones the original: the log starts
TwinClone ==
    /\ panicked = ""
    /\ Clone \notin Instances
    /\ TwinCounted
    /\ computers' = (Clone :> CloneComputer(computers[Original], 2)) @@ computers
    /\ heap' = CloneMemory(heap, computers[Original].memory, 2)
    /\ last' = Call("clone", Clone, "", None, 0)
    /\ hist' = [hist EXCEPT !.log = <<>>]
    /\ UNCHANGED <<panicked, npokes, others>>

\* the calls instance `id` got since the clone was made
CallsOf(id) == SelectSeq(hist.log, LAMBDA e : e.id = id)

\* of original and clone, the one that is not `id`
Twin(id) == IF id = Original THEN Clone ELSE Original

\* the twin of `id` has got more calls than `id`: the next call of `id` is
\* the call its twin got at that place
Follows(id, op, args) ==
    LET mine == CallsOf(id)
        its == CallsOf(Twin(id))
    IN  Len(mine) < Len(its) =>
            /\ its[Len(mine) + 1].op = op
            /\ its[Len(mine) + 1].args = args

\* a call of instance `id` with the outcome r, logged once the clone is made
TwinCall(id, op, args, r) ==
    /\ panicked = ""
    /\ TwinCounted
    /\ (Clone \in Instances /\ id # Other) => Follows(id, op, args)
    /\ op \in {"step", "run"} => View(id).output # None \/ View(id).step < MaxSteps
    /\ r.ret # "Unbounded"
    /\ Commit(id, r.c)
    /\ panicked' = r.panic
    /\ last' = [Call(op, id, r.ret, r.out, 0) EXCEPT !.args = args]
    /\ hist' = IF Clone \notin Instances THEN hist
               ELSE [hist EXCEPT !.log =
                        Append(@, [id |-> id, op |-> op, args |-> args,
                                   ret |-> r.ret, out |-> r.out, panic |-> r.panic])]
    /\ UNCHANGED <<npokes, others>>

\* the third instance is stepped and poked
Twins == Instances \ {Other}

TwinStep ==
    \E id \in Instances : TwinCall(id, "step", <<>>, StepOutcome(View(id)))
TwinRun ==
    \E id \in Twins : TwinCall(id, "run", <<>>, RunOutcome(View(id)))
TwinAppendInput ==
    \E id \in Twins, numbers \in TwinInputs :
        TwinCall(id, "append_input", numbers, AppendInputOutcome(View(id), numbers))
TwinTakeOutput ==
    \E id \in Twins : TwinCall(id, "take_output", <<>>, TakeOutputOutcome(View(id)))
TwinPoke ==
    \E id \in Instances, args \in TwinPokes :
        TwinCall(id, "poke", args, PokeOutcome(View(id), args[1], args[2]))

NextTwin ==
    \/ TwinClone
    \/ TwinStep
    \/ TwinRun
    \/ TwinAppendInput
    \/ TwinTakeOutput
    \/ TwinPoke

SpecTwin == InitTwin /\ [][NextTwin]_vars

\* the first k calls of original and clone were the same operations with
\* the same arguments
SameCalls(k) ==
    \A j \in 1..k :
        /\ CallsOf(Original)[j].op = CallsOf(Clone)[j].op
        /\ CallsOf(Original)[j].args = CallsOf(Clone)[j].args

\* the calls original and clone have both got
Both ==
    IF Len(CallsOf(Original)) < Len(CallsOf(Clone))
    THEN Len(CallsOf(Original)) ELSE Len(CallsOf(Clone))

\* C38: original and clone are equal when the clone is made; as long as
\* they get the same operations with the same arguments, each call returns
\* the same to both (state, Option, panic), and when both have got the same
\* calls they are in equal states, whatever the host called on either or on
\* the third instance in between
C38_Deterministic ==
    Clone \in Instances =>
        /\ \A k \in 1..Both :
              SameCalls(k) =>
                 /\ CallsOf(Original)[k].ret = CallsOf(Clone)[k].ret
                 /\ CallsOf(Original)[k].out = CallsOf(Clone)[k].out
                 /\ CallsOf(Original)[k].panic = CallsOf(Clone)[k].panic
        /\ (Len(CallsOf(Original)) = Len(CallsOf(Clone)) /\ SameCalls(Both)) =>
              View(Original) = View(Clone)

\* C38 witness: original and clone got the same input, with a poke of the
\* third instance between the two calls
C38_Witness ==
    /\ Len(hist.log) = 3
    /\ hist.log[1].id = Original /\ hist.log[1].op = "append_input"
    /\ hist.log[2].id = Other /\ hist.log[2].op = "poke"
    /\ hist.log[3].id = Clone /\ hist.log[3].args = hist.log[1].args
    /\ View(Original) = View(Clone)
    /\ View(Other) # View(Original)

-----------------------------------------------------------------------------
(* bin/23.rs: the host of a network of Computers.  Each node has a flag    *)
(* `active` and a flag `packet_underflow`; the host pops a node from the    *)
(* queue `active`, runs its Computer and acts on the RunState returned.     *)
(* The Computers run a program that is not part of the model: a run may     *)
(* return any RunState and read_output any words.  network holds the nodes' *)
(* flags, the queue, nat_packet, last_y, the value returned and the count   *)
(* of nodes popped.                                                         *)

NodeCount == 3
MaxPops == 7

\* the address of the NAT
NatAddress == 255

NodeIndexes == 0..(NodeCount - 1)

\* the packets a node sends: to a node, to the NAT, to no node
Destinations == NodeIndexes \cup {NatAddress, NodeCount}
PacketX == 7
PacketYs == {1, 2}
Packets == {<<dest, PacketX, y>> : dest \in Destinations, y \in PacketYs}

\* what read_output returns: no packet, one, two (of the same y), or
\* words that are no whole number of packets
Outputs ==
    {<<>>} \cup Packets
        \cup {<<d, PacketX, 1, e, PacketX, 1>> : d \in Destinations, e \in Destinations}
        \cup {<<0, PacketX>>}

\* mutant of Deliver: the node is enqueued whether it is active or not
RECURSIVE DeliverEnqueues(_, _, _)
DeliverEnqueues(part, net, output) ==
    IF output = <<>> \/ net.panic # "" \/ net.returned # None THEN net
    ELSE LET dest == output[1]
             x == output[2]
             y == output[3]
             rest == SubSeq(output, 4, Len(output))
         IN  IF dest = NatAddress
             THEN IF part = 1
                  THEN [net EXCEPT !.returned = Some(y)]
                  ELSE DeliverEnqueues(part, [net EXCEPT !.nat_packet = Some(<<x, y>>)], rest)
             ELSE IF dest \notin NodeIndexes
             THEN [net EXCEPT !.panic = "index out of bounds"]
             ELSE DeliverEnqueues(part,
                      [net EXCEPT !.nodes[dest].packet_underflow = FALSE,
                                  !.nodes[dest].active = TRUE,
                                  !.active = Append(@, dest)],
                      rest)

\* bin/23.rs 45-57 and 105-118: the loop over the packets of an output
RECURSIVE Deliver(_, _, _)
Deliver(part, net, output) ==
    IF output = <<>> \/ net.panic # "" \/ net.returned # None THEN net
    ELSE LET dest == output[1]
             x == output[2]
             y == output[3]
             rest == SubSeq(output, 4, Len(output))
         IN  IF dest = NatAddress
             THEN IF part = 1
                  THEN [net EXCEPT !.returned = Some(y)]
                  ELSE Deliver(part, [net EXCEPT !.nat_packet = Some(<<x, y>>)], rest)
             ELSE IF dest \notin NodeIndexes
             THEN [net EXCEPT !.panic = "index out of bounds"]
             ELSE Deliver(part,
                      [net EXCEPT !.nodes[dest].packet_underflow = FALSE,
                                  !.nodes[dest].active =
                                      IF ~net.nodes[dest].active THEN TRUE ELSE @,
                                  !.active =
                                      IF ~net.nodes[dest].active THEN Append(@, dest) ELSE @],
                      rest)

\* bin/23.rs 35-41 and 91-101: the node popped is blocked on input
Underflow(part, net, i) ==
    IF part = 1
    THEN [net EXCEPT !.nodes[i].packet_underflow = TRUE,
                     !.nodes[i].active = TRUE,
                     !.active = Append(@, i)]
    ELSE IF ~net.nodes[i].packet_underflow
    THEN [net EXCEPT !.nodes[i].packet_underflow = TRUE,
                     !.nodes[i].active = IF ~net.nodes[i].active THEN TRUE ELSE @,
                     !.active = IF ~net.nodes[i].active THEN Append(@, i) ELSE @]
    ELSE net

\* bin/23.rs 32-62 and 88-123: one turn of the while loop, for the RunState
\* `ret` of the node popped and the words `output` of its read_output
Turn(part, net, ret, output) ==
    LET i == Head(net.active)
        popped == [net EXCEPT !.active = Tail(@),
                              !.nodes[i].active = FALSE,
                              !.pops = @ + 1]
    IN  CASE ret = "BlockedOnInput" -> Underflow(part, popped, i)
          [] ret = "BlockedOnOutput" ->
                IF Len(output) % 3 # 0
                THEN [popped EXCEPT !.panic = "assertion failed: output.len() % 3 == 0"]
                ELSE Deliver(part, popped, output)
          [] OTHER -> [popped EXCEPT !.panic = "Computer finished unexpectedly."]

\* bin/23.rs 126-138: the queue is empty and the NAT acts
NatResume(net) ==
    IF net.nat_packet = None
    THEN [net EXCEPT !.panic = "called Option::unwrap() on a None value"]
    ELSE LET x == net.nat_packet[1][1]
             y == net.nat_packet[1][2]
         IN  IF net.last_y = Some(y)
             THEN [net EXCEPT !.returned = Some(y)]
             ELSE [net EXCEPT !.last_y = Some(y),
                              !.nodes[0].packet_underflow = FALSE,
                              !.nodes[0].active = TRUE,
                              !.active = Append(@, 0)]

\* bin/23.rs 14-30 and 67-85: all nodes active, all queued in order
InitNetwork ==
    /\ \E part \in {1, 2} :
          network = [part |-> part,
                     nodes |-> [i \in NodeIndexes |->
                                   [active |-> TRUE, packet_underflow |-> FALSE]],
                     active |-> [k \in 1..NodeCount |-> k - 1],
                     nat_packet |-> None,
                     last_y |-> None,
                     returned |-> None,
                     panic |-> "",
                     pops |-> 0]
    /\ computers = <<>>
    /\ heap = <<>>
    /\ panicked = ""
    /\ last = [op |-> "new", i |-> 0, ret |-> "", output |-> <<>>]
    /\ hist = <<>>
    /\ npokes = 0
    /\ nops = 0
    /\ graph = <<>>

\* the host is in its loop
Looping == network.returned = None /\ panicked = ""

NetworkPop ==
    /\ Looping
    /\ network.active # <<>>
    /\ network.pops < MaxPops
    /\ \E ret \in {"BlockedOnInput", "BlockedOnOutput", "Finished"} :
       \E output \in IF ret = "BlockedOnOutput" THEN Outputs ELSE {<<>>} :
          /\ network' = Turn(network.part, network, ret, output)
          /\ panicked' = network'.panic
          /\ last' = [op |-> "pop", i |-> Head(network.active), ret |-> ret,
                      output |-> output]
    /\ UNCHANGED <<computers, heap, hist, npokes, nops, graph>>

NetworkNat ==
    /\ Looping
    /\ network.active = <<>>
    /\ network.part = 2
    /\ network' = NatResume(network)
    /\ panicked' = network'.panic
    /\ last' = [op |-> "nat", i |-> 0, ret |-> "", output |-> <<>>]
    /\ UNCHANGED <<computers, heap, hist, npokes, nops, graph>>

\* bin/23.rs 64: part one with no node left in the queue
NetworkExhausted ==
    /\ Looping
    /\ network.active = <<>>
    /\ network.part = 1
    /\ network' = [network EXCEPT !.panic = "internal error: entered unreachable code"]
    /\ panicked' = network'.panic
    /\ last' = [op |-> "unreachable", i |-> 0, ret |-> "", output |-> <<>>]
    /\ UNCHANGED <<computers, heap, hist, npokes, nops, graph>>

NextNetwork == NetworkPop \/ NetworkNat \/ NetworkExhausted

SpecNetwork == InitNetwork /\ [][NextNetwork]_vars

\* the indexes of the queue
Queued(net) == {net.active[k] : k \in 1..Len(net.active)}

\* the destinations of the packets of an output, in order
Dests(output) == [k \in 1..(Len(output) \div 3) |-> output[3 * k - 2]]

\* the elements of s without those in `seen`, each at its first place
RECURSIVE Firsts(_, _)
Firsts(s, seen) ==
    IF s = <<>> THEN <<>>
    ELSE IF Head(s) \in seen THEN Firsts(Tail(s), seen)
    ELSE <<Head(s)>> \o Firsts(Tail(s), seen \cup {Head(s)})

\* C39: whenever the host is about to pop, no index is twice in the queue
\* and nodes[i].active holds exactly for the indexes in the queue.  A turn
\* that delivers packets appends to the rest of the queue the destinations
\* that were not in it, each once, in the order of their first packet; and
\* node 0 is enqueued by the NAT only when the queue is empty.
C39_ActiveQueue ==
    /\ [](Looping =>
            /\ Cardinality(Queued(network)) = Len(network.active)
            /\ \A i \in NodeIndexes : network.nodes[i].active = (i \in Queued(network)))
    /\ [][/\ (last'.op = "pop" /\ last'.ret = "BlockedOnOutput" /\ panicked' = ""
                 /\ network'.returned = None) =>
               network'.active =
                  Tail(network.active)
                     \o Firsts(SelectSeq(Dests(last'.output), LAMBDA d : d # NatAddress),
                               Queued([active |-> Tail(network.active)]))
          /\ last'.op = "nat" =>
               /\ network.active = <<>>
               /\ network'.active \in {<<>>, <<0>>}
          /\ (network.active = <<>> /\ network'.active # <<>>) => last'.op = "nat"
       ]_vars

\* C39 witness: in part two the NAT has re-enqueued node 0, and node 0 has
\* then sent two packets to node 1, which is in the queue once
C39_Witness ==
    /\ network.part = 2
    /\ network.last_y # None
    /\ last.op = "pop"
    /\ last.i = 0
    /\ Dests(last.output) = <<1, 1>>
    /\ network.active = <<1>>
    /\ network.nodes[1].active

====
